---- MODULE Spec2Model ----
(***************************************************************************)
(* Figure grouping and page layout engine of Controller/select_image.py.   *)
(*                                                                         *)
(* Coordinates of the content manifest are floats in the source.  They are *)
(* modelled as integer multiples of 1/Unit, so that boxes narrower than    *)
(* one coordinate unit exist; the literal 1.0 of the source is Unit here.  *)
(* Quotients are kept exact as pairs <<numerator, denominator>> with a     *)
(* positive denominator.                                                   *)
(***************************************************************************)
EXTENDS Integers, Sequences, FiniteSets, TLC

VARIABLES
    figures,    \* match_figures_to_captions: the image elements (page_idx, bbox)
    captions,   \* match_figures_to_captions: the caption elements (page_idx, bbox)
    matched,    \* matched[i]: index of the caption chosen for figure i, 0 for no entry
    mi,         \* number of figures the outer loop has handled
    text,       \* purify_caption: the candidate caption text, a sequence of characters
    purified,   \* purify_caption: the returned text
    is_valid,   \* purify_caption: the returned flag
    fnum,       \* extract_figure_number of the purified text, None when it has none
    tpc,        \* position of the caption validator or of the call of wrap_lines
    wrap_args,  \* wrap_lines: [max_width, max_lines, font_size] of the call
    wrapped,    \* wrap_lines: the returned lines
    manifest,   \* content_list.json: the image items (page_idx, bbox, img_path, image_caption)
    entries,    \* the markdown entries (image_rel, caption, figure_bbox, figure_page_idx, caption_bbox)
    entry_figures,     \* the annotated entries of group_figures_by_proximity
    groups_by_number,  \* ordered dict: sequence of [key, images], images being entry indexes
    ungrouped,         \* entry indexes not yet in a group
    result_groups,     \* the groups before the stage-4 merge
    merged_all,        \* the returned groups
    gpc,               \* position in the grouping pipeline
    cfg,            \* the RenderConfig
    canvas_size,    \* <<canvas_w, canvas_h>>, the size of the rendered cover page
    figure_groups,  \* process_paper: the groups the loop runs over
    gi,             \* number of groups the loop has handled
    tiles,          \* the composed images, each <<width, height>>
    captions_list,  \* the caption handed to the packer for each tile
    matched_meta,   \* the items of the report
    used,           \* number of groups that became a tile
    skipped,        \* number of groups skipped, by reason
    idx,            \* number of tiles the packer loop has handled
    pending_left,   \* hybrid packer: the narrow tile waiting for a partner, 0 for None
    current,        \* hybrid packer: the planned items of the page being filled
    used_h,         \* hybrid packer: the height used on that page
    pages,          \* the pages pasted by the hybrid or the masonry packer
    rl_pages,       \* the placements drawn by the reportlab engine
    page_stats,     \* the per-page stats of the engine that ran last
    report,         \* report.json, <<>> before it is written
    lpc,            \* position in process_paper after grouping, or in pack_tiles_masonry
    out_pngs,       \* the page files of out_dir: the engine that wrote each of them last
    args,           \* run(): the parsed command line, [layout_engine]
    reports,        \* run(): the reports of the papers processed so far
    stripped        \* strip_embedded_caption: <<>> before the call, else [entry, fig, mask]

matchVars == <<figures, captions, matched, mi>>

textVars == <<text, purified, is_valid, fnum, tpc, wrap_args, wrapped>>

groupVars == <<manifest, entries, entry_figures, groups_by_number, ungrouped,
               result_groups, merged_all, gpc>>

layoutVars == <<cfg, canvas_size, figure_groups, gi, tiles, captions_list, matched_meta, used,
                skipped, idx, pending_left, current, used_h, pages, rl_pages, page_stats,
                report, lpc, out_pngs>>

runVars == <<args, reports>>

stripVars == <<stripped>>

vars == <<figures, captions, matched, mi, text, purified, is_valid, fnum, tpc,
          wrap_args, wrapped,
          manifest, entries, entry_figures, groups_by_number, ungrouped,
          result_groups, merged_all, gpc,
          cfg, canvas_size, figure_groups, gi, tiles, captions_list, matched_meta, used,
          skipped, idx, pending_left, current, used_h, pages, rl_pages, page_stats,
          report, lpc, out_pngs, args, reports, stripped>>

\* None for an optional integer (ordinals and page indexes are never negative)
None == 0 - 1

\* None for an optional bbox; the empty string is the empty sequence as well
NoBox == <<>>

----------------------------------------------------------------------------
(* Arithmetic helpers.                                                     *)

Max(a, b) == IF a >= b THEN a ELSE b

Min(a, b) == IF a <= b THEN a ELSE b

Abs(a) == IF a >= 0 THEN a ELSE 0 - a

\* a local variable of the code: Body applied to the value assigned to it
Local(value, Body(_)) == Body(value)

RECURSIVE GCD(_, _)
GCD(a, b) == IF b = 0 THEN a ELSE GCD(b, a % b)

\* Exact quotients <<n, d>>, d > 0.  Two quotients are brought to their least
\* common denominator, which keeps the products small.
RLt(p, q) ==
    Local(GCD(p[2], q[2]), LAMBDA g : p[1] * (q[2] \div g) < q[1] * (p[2] \div g))

RLe(p, q) ==
    Local(GCD(p[2], q[2]), LAMBDA g : p[1] * (q[2] \div g) <= q[1] * (p[2] \div g))

REq(p, q) ==
    Local(GCD(p[2], q[2]), LAMBDA g : p[1] * (q[2] \div g) = q[1] * (p[2] \div g))

\* the quotient in lowest terms
RNorm(p) ==
    Local(GCD(Abs(p[1]), p[2]), LAMBDA g :
        IF p[1] >= 0 THEN <<p[1] \div g, p[2] \div g>>
        ELSE <<0 - ((0 - p[1]) \div g), p[2] \div g>>)

RAdd(p, q) ==
    Local(GCD(p[2], q[2]), LAMBDA g :
        RNorm(<<p[1] * (q[2] \div g) + q[1] * (p[2] \div g), p[2] * (q[2] \div g)>>))

RSub(p, q) ==
    Local(GCD(p[2], q[2]), LAMBDA g :
        RNorm(<<p[1] * (q[2] \div g) - q[1] * (p[2] \div g), p[2] * (q[2] \div g)>>))

\* p * q; the common factors are cancelled before multiplying
RMul(p, q) ==
    Local(GCD(Abs(p[1]), q[2]), LAMBDA g1 :
    Local(GCD(Abs(q[1]), p[2]), LAMBDA g2 :
        RNorm(<<(p[1] \div g1) * (q[1] \div g2), (p[2] \div g2) * (q[2] \div g1)>>)))

\* p / q for q > 0
RDiv(p, q) == RMul(p, <<q[2], q[1]>>)

RMax(p, q) == IF RLt(p, q) THEN q ELSE p

RMin(p, q) == IF RLt(q, p) THEN q ELSE p

\* Ticks per coordinate unit.
Unit == 2

----------------------------------------------------------------------------
(* Geometry utilities.  A bbox is <<x0, y0, x1, y1>> in ticks.             *)

\* inter / max(1.0, min(widths))
horizontal_overlap(a, b) ==
    LET inter == Max(0, Min(a[3], b[3]) - Max(a[1], b[1]))
        denom == Max(Unit, Min(a[3] - a[1], b[3] - b[1]))
    IN  <<inter, denom>>

----------------------------------------------------------------------------
(* Figure-caption matcher.                                                 *)

\* dist - overlap * 10.0, in coordinate units, as an exact quotient
MatchScore(fbbox, cbbox) ==
    LET ov == horizontal_overlap(fbbox, cbbox)
        dist == cbbox[2] - fbbox[4]
    IN  <<dist * ov[2] - 10 * Unit * ov[1], Unit * ov[2]>>

\* the caption is looked for above the figure instead of below it
MatchCandidate_above(fig, cap) ==
    /\ cap.page_idx = fig.page_idx
    /\ ~(fig.bbox[2] < cap.bbox[4])
    /\ ~RLt(horizontal_overlap(fig.bbox, cap.bbox), <<1, 5>>)

\* the three `continue` guards of the inner loop
MatchCandidate(fig, cap) ==
    /\ cap.page_idx = fig.page_idx
    /\ ~(cap.bbox[2] < fig.bbox[4])
    /\ ~RLt(horizontal_overlap(fig.bbox, cap.bbox), <<1, 5>>)

\* best_score is None or score < best_score
MatchBetter(score, best, best_score) ==
    best = 0 \/ RLt(score, best_score)

\* the inner loop over captions from position k on; best = 0 is None
RECURSIVE MatchScan(_, _, _, _, _)
MatchScan(fig, caps, k, best, best_score) ==
    IF k > Len(caps) THEN best
    ELSE IF MatchCandidate(fig, caps[k])
              /\ MatchBetter(MatchScore(fig.bbox, caps[k].bbox), best, best_score)
         THEN MatchScan(fig, caps, k + 1, k, MatchScore(fig.bbox, caps[k].bbox))
         ELSE MatchScan(fig, caps, k + 1, best, best_score)

\* one iteration of the outer loop: figure mi + 1
MatchFigure ==
    /\ mi < Len(figures)
    /\ matched' = Append(matched, MatchScan(figures[mi + 1], captions, 1, 0, <<0, 1>>))
    /\ mi' = mi + 1
    /\ UNCHANGED <<figures, captions>>
    /\ UNCHANGED <<textVars, groupVars, layoutVars, runVars, stripVars>>

----------------------------------------------------------------------------
(* Caption validator.  A text is a sequence of one-character strings.      *)

UpperSeq == <<"A", "B", "C", "D", "E", "F", "G", "H", "I", "J", "K", "L", "M",
              "N", "O", "P", "Q", "R", "S", "T", "U", "V", "W", "X", "Y", "Z">>

LowerSeq == <<"a", "b", "c", "d", "e", "f", "g", "h", "i", "j", "k", "l", "m",
              "n", "o", "p", "q", "r", "s", "t", "u", "v", "w", "x", "y", "z">>

DigitSeq == <<"0", "1", "2", "3", "4", "5", "6", "7", "8", "9">>

IsUpper(c) == \E k \in 1..26 : UpperSeq[k] = c

IsDigit(c) == \E k \in 1..10 : DigitSeq[k] = c

IsSpace(c) == c \in {" ", "\n", "\t", "\r"}

\* re.IGNORECASE folds both sides to one case
Lower(c) == IF IsUpper(c) THEN LowerSeq[CHOOSE k \in 1..26 : UpperSeq[k] = c] ELSE c

DigitVal(c) == (CHOOSE k \in 1..10 : DigitSeq[k] = c) - 1

\* str.strip()
Strip(s) ==
    LET keep == {k \in 1..Len(s) : ~IsSpace(s[k])}
    IN  IF keep = {} THEN <<>>
        ELSE SubSeq(s, CHOOSE k \in keep : \A m \in keep : k <= m,
                       CHOOSE k \in keep : \A m \in keep : k >= m)

\* the word w (lower case) stands at position p of s, ignoring case
WordAt(s, p, w) ==
    /\ p >= 1
    /\ p + Len(w) - 1 <= Len(s)
    /\ \A j \in 1..Len(w) : Lower(s[p + j - 1]) = w[j]

\* the alternatives of (?:Figure|Fig\.?|tu|Table|biao), in lower case
MarkerWords ==
    {<<"f", "i", "g", "u", "r", "e">>, <<"f", "i", "g">>, <<"f", "i", "g", ".">>,
     <<"<tu>">>, <<"t", "a", "b", "l", "e">>, <<"<biao>">>}

\* (?:Figure|Fig\.?|tu|Table|biao) at position p: the positions right after it;
\* the atoms "<tu>" and "<biao>" stand for the two one-character CJK markers
MarkerEnds(s, p) ==
    {p + Len(w) : w \in {m \in MarkerWords : WordAt(s, p, m)}}

\* \s* from position e: the first position that holds no white space
SkipSpace(s, e) ==
    LET stop == {k \in e..Len(s) : ~IsSpace(s[k])}
    IN  IF stop = {} THEN Len(s) + 1 ELSE CHOOSE k \in stop : \A m \in stop : k <= m

\* the positions of the first digit of a match of figure_pattern that starts at p
DigitStarts(s, p) ==
    {SkipSpace(s, e) : e \in MarkerEnds(s, p)}
        \cap {k \in 1..Len(s) : IsDigit(s[k])}

\* re.search(figure_pattern, s, re.IGNORECASE): start of the leftmost match, 0 for no match
figure_pattern(s) ==
    LET hits == {p \in 1..Len(s) : DigitStarts(s, p) # {}}
    IN  IF hits = {} THEN 0 ELSE CHOOSE p \in hits : \A q \in hits : p <= q

\* re.search(loose_pattern, s, re.IGNORECASE): the text starts with a marker
loose_pattern(s) == MarkerEnds(s, 1) # {}

\* str.split('\n')
RECURSIVE SplitLines(_)
SplitLines(s) ==
    LET nl == {k \in 1..Len(s) : s[k] = "\n"}
    IN  IF nl = {} THEN <<s>>
        ELSE LET k == CHOOSE m \in nl : \A n \in nl : m <= n
             IN  <<SubSeq(s, 1, k - 1)>> \o SplitLines(SubSeq(s, k + 1, Len(s)))

\* '\n'.join(lines)
RECURSIVE JoinLines(_)
JoinLines(lines) ==
    IF lines = <<>> THEN <<>>
    ELSE IF Len(lines) = 1 THEN lines[1]
    ELSE lines[1] \o <<"\n">> \o JoinLines(Tail(lines))

\* re.match(r'^[A-Z][A-Z\s]+$', line)
AllCapsHeading(line) ==
    /\ Len(line) >= 2
    /\ IsUpper(line[1])
    /\ \A k \in 2..Len(line) : IsUpper(line[k]) \/ IsSpace(line[k])

\* re.match(r'^\d+\.\s+[A-Z]', line)
NumberedHeading(line) ==
    \E d \in 1..Len(line) : \E u \in (d + 3)..Len(line) :
        /\ \A k \in 1..d : IsDigit(line[k])
        /\ line[d + 1] = "."
        /\ \A k \in (d + 2)..(u - 1) : IsSpace(line[k])
        /\ IsUpper(line[u])

\* len(next_line) > 10 marks a new paragraph after an empty line
ParagraphMinLen == 10

\* at most 5 lines are kept
MaxCaptionLines == 5

\* the truncation loop over the lines, from line i on
RECURSIVE PurifyLines(_, _, _)
PurifyLines(lines, i, acc) ==
    IF i > Len(lines) THEN acc
    ELSE LET line == Strip(lines[i])
         IN  IF line = <<>>
             THEN IF i + 1 <= Len(lines)
                     /\ LET next_line == Strip(lines[i + 1])
                        IN  /\ next_line # <<>>
                            /\ IsUpper(next_line[1])
                            /\ Len(next_line) > ParagraphMinLen
                  THEN acc
                  ELSE PurifyLines(lines, i + 1, acc)
             ELSE IF AllCapsHeading(line) \/ NumberedHeading(line)
                  THEN acc
                  ELSE IF Len(acc) + 1 >= MaxCaptionLines
                       THEN Append(acc, line)
                       ELSE PurifyLines(lines, i + 1, Append(acc, line))

\* the purified text is returned without the final check
PurifyResult_unchecked(p) == <<p, TRUE>>

\* the final check of purify_caption: the purified text still holds the pattern
PurifyResult(p) ==
    IF figure_pattern(p) # 0 THEN <<p, TRUE>> ELSE <<<<>>, FALSE>>

\* purify_caption(text) -> (purified_text, is_valid)
purify_caption(t) ==
    IF t = <<>> THEN <<<<>>, FALSE>>
    ELSE LET s == Strip(t)
         IN  IF figure_pattern(s) = 0 /\ ~loose_pattern(s)
             THEN <<<<>>, FALSE>>
             ELSE LET cut == IF figure_pattern(s) # 0
                             THEN SubSeq(s, figure_pattern(s), Len(s))
                             ELSE s
                  IN  PurifyResult(Strip(JoinLines(PurifyLines(SplitLines(cut), 1, <<>>))))

\* int(match.group(1)): the value of the digit run that starts at position k
RECURSIVE DigitRun(_, _, _)
DigitRun(s, k, acc) ==
    IF k <= Len(s) /\ IsDigit(s[k])
    THEN DigitRun(s, k + 1, acc * 10 + DigitVal(s[k]))
    ELSE acc

\* an extraction that finds no ordinal
extract_figure_number_unparsed(s) == None

\* extract_figure_number(caption) -> int | None
extract_figure_number(s) ==
    IF s = <<>> \/ figure_pattern(s) = 0 THEN None
    ELSE LET ds == DigitStarts(s, figure_pattern(s))
         IN  DigitRun(s, CHOOSE k \in ds : TRUE, 0)

\* the validator is applied to the candidate text
Validate ==
    /\ tpc = "start"
    /\ purified' = purify_caption(text)[1]
    /\ is_valid' = purify_caption(text)[2]
    /\ tpc' = "validated"
    /\ UNCHANGED <<text, fnum, wrap_args, wrapped>>

\* the ordinal is parsed from a trusted caption (lines 354-356)
ExtractOrdinal ==
    /\ tpc = "validated"
    /\ fnum' = IF purified # <<>> /\ is_valid THEN extract_figure_number(purified) ELSE None
    /\ tpc' = "done"
    /\ UNCHANGED <<text, purified, is_valid, wrap_args, wrapped>>

----------------------------------------------------------------------------
(* Sorting and small helpers.  list.sort(key=...) is stable.               *)

MinOf(S) == CHOOSE x \in S : \A y \in S : x <= y

MaxOf(S) == CHOOSE x \in S : \A y \in S : x >= y

Indexes(seq) == [k \in 1..Len(seq) |-> k]

\* the elements of seq that are not in the set S, in order
Without(seq, S) == SelectSeq(seq, LAMBDA x : x \notin S)

\* the distinct values of f over seq, in order of first appearance
RECURSIVE FirstSeen(_, _)
FirstSeen(seq, acc) ==
    IF seq = <<>> THEN acc
    ELSE IF \E k \in 1..Len(acc) : acc[k] = Head(seq)
         THEN FirstSeen(Tail(seq), acc)
         ELSE FirstSeen(Tail(seq), Append(acc, Head(seq)))

\* lexicographic order on integer tuples of equal length
RECURSIVE LexLt(_, _)
LexLt(a, b) ==
    IF a = <<>> THEN FALSE
    ELSE IF a[1] # b[1] THEN a[1] < b[1]
    ELSE LexLt(Tail(a), Tail(b))

\* e is placed behind every element whose key is not greater
RECURSIVE SortInsert(_, _, _)
SortInsert(sorted, e, key) ==
    IF sorted = <<>> THEN <<e>>
    ELSE IF LexLt(key[e], key[Head(sorted)]) THEN <<e>> \o sorted
    ELSE <<Head(sorted)>> \o SortInsert(Tail(sorted), e, key)

\* sorted(idxs, key=...): key is a function from element to integer tuple
RECURSIVE SortBy(_, _)
SortBy(idxs, key) ==
    IF idxs = <<>> THEN <<>>
    ELSE SortInsert(SortBy(SubSeq(idxs, 1, Len(idxs) - 1), key), idxs[Len(idxs)], key)

----------------------------------------------------------------------------
(* Manifest parsing and caption assignment.                                *)

\* the first non-empty stripped string of an image_caption list, "" for none
FirstCaption(image_caption) ==
    LET ne == {k \in 1..Len(image_caption) : Strip(image_caption[k]) # <<>>}
    IN  IF ne = {} THEN <<>> ELSE Strip(image_caption[MinOf(ne)])

\* the sort key (page_idx, bbox[1], bbox[0]) of figures and captions
ContentKey(items) ==
    [k \in 1..Len(items) |-> <<items[k].page_idx, items[k].bbox[2], items[k].bbox[1]>>]

\* parse_content_items: the image items, sorted; items of other types are dropped
ParseFigures(items) ==
    LET imgs == SelectSeq(Indexes(items), LAMBDA k : items[k].type = "image")
        order == SortBy(imgs, ContentKey(items))
    IN  [j \in 1..Len(order) |->
            [page_idx |-> items[order[j]].page_idx,
             bbox |-> items[order[j]].bbox,
             img_path |-> items[order[j]].img_path,
             image_caption |-> items[order[j]].image_caption]]

\* parse_content_items: one caption per image that carries a caption text,
\* with the bbox of the image itself
ParseCaptions(items) ==
    LET figs == ParseFigures(items)
        with == SelectSeq(Indexes(figs), LAMBDA j : FirstCaption(figs[j].image_caption) # <<>>)
    IN  [c \in 1..Len(with) |->
            [page_idx |-> figs[with[c]].page_idx,
             bbox |-> figs[with[c]].bbox,
             text |-> FirstCaption(figs[with[c]].image_caption)]]

\* match_figures_to_captions as a whole: figure index -> caption index, 0 for none
match_figures_to_captions(figs, caps) ==
    [i \in 1..Len(figs) |-> MatchScan(figs[i], caps, 1, 0, <<0, 1>>)]

\* the figure_by_path lookup: the figure an entry's image_rel names, 0 for none
FigureOf(figs, image_rel) ==
    LET hit == {i \in 1..Len(figs) : figs[i].img_path # "" /\ figs[i].img_path = image_rel}
    IN  IF image_rel = "" \/ hit = {} THEN 0 ELSE MaxOf(hit)

\* assign_captions_by_bbox for one entry
AssignEntry(e, figs, caps, m) ==
    LET f == FigureOf(figs, e.image_rel)
        e1 == [e EXCEPT !.figure_bbox = figs[f].bbox,
                        !.figure_page_idx = figs[f].page_idx,
                        !.img_path = figs[f].img_path]
        own == FirstCaption(figs[f].image_caption)
    IN  IF f = 0 THEN e
        ELSE IF e.caption # <<>> THEN e1
        ELSE IF m[f] # 0
             THEN IF purify_caption(caps[m[f]].text)[2]
                  THEN [e1 EXCEPT !.caption = purify_caption(caps[m[f]].text)[1],
                                  !.caption_bbox = caps[m[f]].bbox]
                  ELSE [e1 EXCEPT !.caption = <<>>, !.caption_bbox = NoBox]
             ELSE IF own # <<>> /\ purify_caption(own)[2]
                  THEN [e1 EXCEPT !.caption = purify_caption(own)[1],
                                  !.caption_bbox = figs[f].bbox]
                  ELSE e1

\* assign_captions_by_bbox(entries, figures, captions)
assign_captions_by_bbox(es, figs, caps) ==
    IF figs = <<>> THEN es
    ELSE [i \in 1..Len(es) |->
             AssignEntry(es[i], figs, caps, match_figures_to_captions(figs, caps))]

----------------------------------------------------------------------------
(* Figure grouper: entry annotation, stage 0 and stage 1.                  *)

\* the override test of lines 345-347
MayOverride(ef, cap_text) ==
    \/ ~ef.caption_valid
    \/ extract_figure_number(ef.caption) = extract_figure_number(cap_text)

\* lines 281-358: the entry_fig record of entry i
AnnotateEntry(e, i, figs, caps, m) ==
    LET raw == Strip(e.caption)
        pr0 == IF raw # <<>> THEN purify_caption(raw) ELSE <<<<>>, FALSE>>
        base == [entry_idx |-> i, figure_idx |-> 0,
                 figure_bbox |-> e.figure_bbox, page_idx |-> e.figure_page_idx,
                 caption |-> pr0[1], caption_bbox |-> e.caption_bbox,
                 caption_valid |-> pr0[2], figure_number |-> None,
                 img_path |-> e.img_path, has_caption |-> pr0[2]]
        f == FigureOf(figs, e.image_rel)
        withFig == [base EXCEPT !.figure_idx = f, !.figure_bbox = figs[f].bbox,
                                !.page_idx = figs[f].page_idx,
                                !.img_path = figs[f].img_path]
        ic == figs[f].image_caption
        okCaps == {k \in 1..Len(ic) :
                      Strip(ic[k]) # <<>> /\ purify_caption(Strip(ic[k]))[2]}
        withOwn == IF ~withFig.caption_valid /\ okCaps # {}
                   THEN [withFig EXCEPT
                            !.caption = purify_caption(Strip(ic[MinOf(okCaps)]))[1],
                            !.has_caption = TRUE, !.caption_valid = TRUE,
                            !.caption_bbox = figs[f].bbox]
                   ELSE withFig
        pm == purify_caption(caps[m[f]].text)
        withMatch == IF m[f] # 0 /\ pm[2] /\ MayOverride(withOwn, pm[1])
                     THEN [withOwn EXCEPT !.caption = pm[1],
                                          !.caption_bbox = caps[m[f]].bbox,
                                          !.has_caption = TRUE, !.caption_valid = TRUE]
                     ELSE withOwn
        ann == IF f = 0 THEN base ELSE withMatch
    IN  [ann EXCEPT !.figure_number =
            IF ann.caption # <<>> /\ ann.caption_valid
            THEN extract_figure_number(ann.caption) ELSE None]

\* entry_fig.get("page_idx", 0) or 0
PageOr0(p) == IF p = None THEN 0 ELSE p

\* _vertical_distance(bbox1, bbox2)
vertical_distance(bbox1, bbox2) == bbox2[2] - bbox1[4]

\* the sort key bbox[1] if bbox else 0
YKey(efs) ==
    [i \in 1..Len(efs) |->
        <<IF efs[i].figure_bbox # NoBox THEN efs[i].figure_bbox[2] ELSE 0>>]

\* the assumed page height when a page has no bbox
DefaultPageHeight == 1000

\* the page height estimate of stage 0: the largest bbox bottom of the page
Stage0PageHeight(efs, page_entries) ==
    LET ys == {efs[page_entries[k]].figure_bbox[4] :
                  k \in {n \in 1..Len(page_entries) :
                            efs[page_entries[n]].figure_bbox # NoBox}}
        page_max_y == IF ys = {} THEN 0 ELSE Max(0, MaxOf(ys))
    IN  IF page_max_y > 0 THEN page_max_y ELSE DefaultPageHeight * Unit

\* 0 <= vert_dist <= page_height * 0.18 and overlap >= 0.18
Stage0Adjacent(last_bbox, bbox, page_height) ==
    /\ 0 <= vertical_distance(last_bbox, bbox)
    /\ vertical_distance(last_bbox, bbox) * 100 <= page_height * 18
    /\ horizontal_overlap(last_bbox, bbox)[1] * 100
          >= 18 * horizontal_overlap(last_bbox, bbox)[2]

\* the walk over one page's sorted entries, from position k on
RECURSIVE Stage0Walk(_, _, _, _, _, _)
Stage0Walk(efs, order, k, last_number, last_bbox, page_height) ==
    IF k > Len(order) THEN efs
    ELSE LET i == order[k]
             bbox == efs[i].figure_bbox
         IN  IF bbox = NoBox
             THEN Stage0Walk(efs, order, k + 1, last_number, last_bbox, page_height)
             ELSE IF efs[i].figure_number # None
             THEN Stage0Walk(efs, order, k + 1, efs[i].figure_number, bbox, page_height)
             ELSE IF efs[i].caption_valid
             THEN Stage0Walk(efs, order, k + 1, None, NoBox, page_height)
             ELSE IF last_number # None /\ last_bbox # NoBox
                     /\ Stage0Adjacent(last_bbox, bbox, page_height)
             THEN Stage0Walk([efs EXCEPT ![i].figure_number = last_number],
                             order, k + 1, last_number, last_bbox, page_height)
             ELSE Stage0Walk(efs, order, k + 1, last_number, last_bbox, page_height)

\* stage 0 on the pages listed in page_list
RECURSIVE Stage0Pages(_, _)
Stage0Pages(efs, page_list) ==
    IF page_list = <<>> THEN efs
    ELSE LET page_entries ==
                 SelectSeq(Indexes(efs), LAMBDA i : PageOr0(efs[i].page_idx) = Head(page_list))
             order == SortBy(page_entries, YKey(efs))
         IN  Stage0Pages(Stage0Walk(efs, order, 1, None, NoBox,
                                    Stage0PageHeight(efs, page_entries)),
                         Tail(page_list))

\* lines 360-397
Stage0(efs) ==
    Stage0Pages(efs, FirstSeen([i \in 1..Len(efs) |-> PageOr0(efs[i].page_idx)], <<>>))

\* dict[key].append(i), creating the key at the end of the dict when it is new
DictAppend_overwrite(d, key, i) ==
    IF \E k \in 1..Len(d) : d[k].key = key
    THEN [k \in 1..Len(d) |->
             IF d[k].key = key THEN [d[k] EXCEPT !.images = <<i>>] ELSE d[k]]
    ELSE Append(d, [key |-> key, images |-> <<i>>])

DictAppend(d, key, i) ==
    IF \E k \in 1..Len(d) : d[k].key = key
    THEN [k \in 1..Len(d) |->
             IF d[k].key = key THEN [d[k] EXCEPT !.images = Append(@, i)] ELSE d[k]]
    ELSE Append(d, [key |-> key, images |-> <<i>>])

\* dict[key] = images: an existing key keeps its position and loses its old value
DictPut(d, key, images) ==
    IF \E k \in 1..Len(d) : d[k].key = key
    THEN [k \in 1..Len(d) |->
             IF d[k].key = key THEN [d[k] EXCEPT !.images = images] ELSE d[k]]
    ELSE Append(d, [key |-> key, images |-> images])

Stage1Key_perEntry(ef) == <<ef.entry_idx, ef.figure_number>>

\* key = (int(page), int(num))
Stage1Key(ef) == <<PageOr0(ef.page_idx), ef.figure_number>>

\* lines 399-412, from entry i on: <<groups_by_number, ungrouped>>
RECURSIVE Stage1(_, _, _, _)
Stage1(efs, i, groups, ungr) ==
    IF i > Len(efs) THEN <<groups, ungr>>
    ELSE IF efs[i].figure_number # None
         THEN Stage1(efs, i + 1, DictAppend(groups, Stage1Key(efs[i]), i), ungr)
         ELSE Stage1(efs, i + 1, groups, Append(ungr, i))

----------------------------------------------------------------------------
(* Figure grouper: stages 2 and 3.                                         *)

\* _width_similarity(b1, b2) > 0.8, i.e. 1 - |w1 - w2| / max(w1, w2) > 0.8
WidthSimilar(b1, b2) ==
    LET w1 == b1[3] - b1[1]
        w2 == b2[3] - b2[1]
    IN  w1 # 0 /\ w2 # 0 /\ Abs(w1 - w2) * 5 < Max(w1, w2)

\* _height_similarity(b1, b2) > 0.8
HeightSimilar(b1, b2) ==
    LET h1 == b1[4] - b1[2]
        h2 == b2[4] - b2[2]
    IN  h1 # 0 /\ h2 # 0 /\ Abs(h1 - h2) * 5 < Max(h1, h2)

\* stage 2 assumes a page height of 1000 and binds below 10% of it
Stage2PageHeight == 1000

\* stage 3 assumes a page width of 800 and binds below 5% of it
Stage3PageWidth == 800

\* vert_dist < page_height * 0.1 and width_sim > 0.8
Stage2Near(current_bbox, candidate_bbox) ==
    /\ vertical_distance(current_bbox, candidate_bbox) * 10 < Stage2PageHeight * Unit
    /\ WidthSimilar(current_bbox, candidate_bbox)

\* the caption test of lines 467-479
Stage2Captions(cur, candidate, current_bbox) ==
    LET candidate_caption_bbox ==
            IF candidate.caption_bbox = NoBox THEN <<0, 0, 0, 0>>
            ELSE candidate.caption_bbox
    IN  \/ ~cur.has_caption /\ candidate.has_caption
        \/ /\ cur.has_caption /\ candidate.has_caption
           /\ candidate_caption_bbox[2] > current_bbox[4]
        \/ cur.has_caption /\ ~candidate.has_caption

\* the inner while loop: <<group, j>> when it stops
RECURSIVE Stage2Run(_, _, _, _, _)
Stage2Run(efs, order, j, cur, group) ==
    IF j > Len(order) THEN <<group, j>>
    ELSE IF efs[order[j]].figure_bbox = NoBox
         THEN Stage2Run(efs, order, j + 1, cur, group)
         ELSE IF Stage2Near(efs[cur].figure_bbox, efs[order[j]].figure_bbox)
                 /\ Stage2Captions(efs[cur], efs[order[j]], efs[cur].figure_bbox)
              THEN Stage2Run(efs, order, j + 1, order[j], Append(group, order[j]))
              ELSE <<group, j>>

\* the group number of a proximity group: len(groups) + len(pages) + offset
ProximityKey(groups, n_pages, offset) == <<Len(groups) + n_pages + offset>>

Stage2Offset == 1000

Stage3Offset == 2000

\* the outer while loop of one page, from position i on; st = <<groups, ungrouped>>
RECURSIVE Stage2Loop(_, _, _, _, _)
Stage2Loop(efs, order, i, st, n_pages) ==
    IF i > Len(order) THEN st
    ELSE IF efs[order[i]].figure_bbox = NoBox
         THEN Stage2Loop(efs, order, i + 1, st, n_pages)
         ELSE LET run == Stage2Run(efs, order, i + 1, order[i], <<order[i]>>)
                  members == {run[1][k] : k \in 1..Len(run[1])}
              IN  IF Len(run[1]) > 1
                  THEN Stage2Loop(efs, order, run[2],
                                  <<DictPut(st[1], ProximityKey(st[1], n_pages, Stage2Offset),
                                            run[1]),
                                    Without(st[2], members)>>,
                                  n_pages)
                  ELSE Stage2Loop(efs, order, run[2], st, n_pages)

\* entry_fig.get("page_idx", 0) of the entries in ungr, in order of first appearance
PagesOfUngrouped(efs, ungr) ==
    FirstSeen([k \in 1..Len(ungr) |-> efs[ungr[k]].page_idx], <<>>)

\* the entries of ungr on one page
OnPage(efs, ungr, page) == SelectSeq(ungr, LAMBDA i : efs[i].page_idx = page)

\* lines 417-506 for the pages listed in page_list; by_page is the dict built from
\* the ungrouped list before the loop
RECURSIVE Stage2Pages(_, _, _, _, _)
Stage2Pages(efs, by_page, page_list, st, n_pages) ==
    IF page_list = <<>> THEN st
    ELSE LET page_entries == OnPage(efs, by_page, Head(page_list))
         IN  IF Len(page_entries) <= 1
             THEN Stage2Pages(efs, by_page, Tail(page_list), st, n_pages)
             ELSE Stage2Pages(efs, by_page, Tail(page_list),
                              Stage2Loop(efs, SortBy(page_entries, YKey(efs)), 1, st, n_pages),
                              n_pages)

Stage2(efs, groups, ungr) ==
    Stage2Pages(efs, ungr, PagesOfUngrouped(efs, ungr), <<groups, ungr>>,
                Len(PagesOfUngrouped(efs, ungr)))

\* the sort key bbox[0] if bbox else 0
XKey(efs) ==
    [i \in 1..Len(efs) |->
        <<IF efs[i].figure_bbox # NoBox THEN efs[i].figure_bbox[1] ELSE 0>>]

\* 0 < horiz_dist < page_width * 0.05 and height_sim > 0.8
Stage3Near(current_bbox, candidate_bbox) ==
    /\ 0 < candidate_bbox[1] - current_bbox[3]
    /\ (candidate_bbox[1] - current_bbox[3]) * 20 < Stage3PageWidth * Unit
    /\ HeightSimilar(current_bbox, candidate_bbox)

\* exactly one of the two has a trusted caption
Stage3Captions(cur, candidate) ==
    \/ cur.has_caption /\ ~candidate.has_caption
    \/ ~cur.has_caption /\ candidate.has_caption

RECURSIVE Stage3Run(_, _, _, _, _)
Stage3Run(efs, order, j, cur, group) ==
    IF j > Len(order) THEN <<group, j>>
    ELSE IF efs[order[j]].figure_bbox = NoBox
         THEN Stage3Run(efs, order, j + 1, cur, group)
         ELSE IF Stage3Near(efs[cur].figure_bbox, efs[order[j]].figure_bbox)
                 /\ Stage3Captions(efs[cur], efs[order[j]])
              THEN Stage3Run(efs, order, j + 1, order[j], Append(group, order[j]))
              ELSE <<group, j>>

RECURSIVE Stage3Loop(_, _, _, _, _)
Stage3Loop(efs, order, i, st, n_pages) ==
    IF i > Len(order) THEN st
    ELSE IF efs[order[i]].figure_bbox = NoBox
         THEN Stage3Loop(efs, order, i + 1, st, n_pages)
         ELSE LET run == Stage3Run(efs, order, i + 1, order[i], <<order[i]>>)
                  members == {run[1][k] : k \in 1..Len(run[1])}
              IN  IF Len(run[1]) > 1
                  THEN Stage3Loop(efs, order, run[2],
                                  <<DictPut(st[1], ProximityKey(st[1], n_pages, Stage3Offset),
                                            run[1]),
                                    Without(st[2], members)>>,
                                  n_pages)
                  ELSE Stage3Loop(efs, order, run[2], st, n_pages)

RECURSIVE Stage3Pages(_, _, _, _, _)
Stage3Pages(efs, by_page, page_list, st, n_pages) ==
    IF page_list = <<>> THEN st
    ELSE LET page_entries == OnPage(efs, by_page, Head(page_list))
         IN  IF Len(page_entries) <= 1
             THEN Stage3Pages(efs, by_page, Tail(page_list), st, n_pages)
             ELSE Stage3Pages(efs, by_page, Tail(page_list),
                              Stage3Loop(efs, SortBy(page_entries, XKey(efs)), 1, st, n_pages),
                              n_pages)

\* lines 511-576
Stage3(efs, groups, ungr) ==
    Stage3Pages(efs, ungr, PagesOfUngrouped(efs, ungr), <<groups, ungr>>,
                Len(PagesOfUngrouped(efs, ungr)))

----------------------------------------------------------------------------
(* Figure grouper: result build and the stage-4 connected merge.           *)

\* group ids: f"{page}-{num}" is <<"pn", page, num>>, an integer n is <<"int", n>>,
\* f"p{page}-m{k}" is <<"pm", page, k>>
GroupIdOf(key) ==
    IF Len(key) = 2 THEN <<"pn", key[1], key[2]>> ELSE <<"int", key[1]>>

\* a group id as the value the group carries, <<type, value>>: the formatted
\* string of lines 582 and 699, or the integer itself
FormatGroupId(id) ==
    IF id[1] = "pn" THEN <<"str", ToString(id[2]) \o "-" \o ToString(id[3])>>
    ELSE IF id[1] = "pm" THEN <<"str", "p" \o ToString(id[2]) \o "-m" \o ToString(id[3])>>
    ELSE id

\* a == b of two group ids: an integer never equals a string
SameGroupId(a, b) ==
    /\ FormatGroupId(a)[1] = FormatGroupId(b)[1]
    /\ FormatGroupId(a)[2] = FormatGroupId(b)[2]

\* lines 590-598: the caption of a pre-merge group, folded over its entries;
\* acc = <<group_caption, group_caption_bbox>>
RECURSIVE GroupCaption(_, _, _, _)
GroupCaption(efs, images, k, acc) ==
    IF k > Len(images) THEN acc
    ELSE LET entry_caption == Strip(efs[images[k]].caption)
             cap_bbox == efs[images[k]].caption_bbox
             cap_y == IF cap_bbox # NoBox THEN cap_bbox[2] ELSE 0
         IN  IF entry_caption # <<>>
                /\ (\/ acc[1] = <<>>
                    \/ cap_bbox # NoBox /\ (acc[2] = NoBox \/ cap_y > acc[2][2]))
             THEN GroupCaption(efs, images, k + 1, <<entry_caption, cap_bbox>>)
             ELSE GroupCaption(efs, images, k + 1, acc)

\* lines 600-601: the page of the first entry that has one
GroupPage(efs, images) ==
    LET has == {k \in 1..Len(images) : efs[images[k]].page_idx # None}
    IN  IF has = {} THEN None ELSE efs[images[MinOf(has)]].page_idx

\* lines 580-609
GroupRecord(efs, g) ==
    [group_id |-> GroupIdOf(g.key),
     images |-> g.images,
     caption |-> GroupCaption(efs, g.images, 1, <<<<>>, NoBox>>)[1],
     caption_bbox |-> GroupCaption(efs, g.images, 1, <<<<>>, NoBox>>)[2],
     page_idx |-> GroupPage(efs, g.images)]

SingletonOffset == 3000

SingletonId_fixed(res) == <<"int", SingletonOffset>>

\* line 614: len(result_groups) + 3000
SingletonId(res) == <<"int", Len(res) + SingletonOffset>>

\* lines 612-619, from position k of the ungrouped list on
RECURSIVE AddSingletons(_, _, _, _)
AddSingletons(efs, ungr, k, res) ==
    IF k > Len(ungr) THEN res
    ELSE AddSingletons(efs, ungr, k + 1,
            Append(res, [group_id |-> SingletonId(res),
                         images |-> <<ungr[k]>>,
                         caption |-> efs[ungr[k]].caption,
                         caption_bbox |-> efs[ungr[k]].caption_bbox,
                         page_idx |-> efs[ungr[k]].page_idx]))

\* lines 579-619
BuildResult(efs, groups, ungr) ==
    AddSingletons(efs, ungr, 1, [k \in 1..Len(groups) |-> GroupRecord(efs, groups[k])])

\* _bbox_union over the boxes of a group's images, NoBox when it has none
bbox_union(efs, images) ==
    LET valid == {k \in 1..Len(images) : efs[images[k]].figure_bbox # NoBox}
        bb(k) == efs[images[k]].figure_bbox
    IN  IF valid = {} THEN NoBox
        ELSE <<MinOf({bb(k)[1] : k \in valid}), MinOf({bb(k)[2] : k \in valid}),
               MaxOf({bb(k)[3] : k \in valid}), MaxOf({bb(k)[4] : k \in valid})>>

\* _bbox_vertical_gap(a, b)
bbox_vertical_gap(a, b) ==
    IF b[2] >= a[4] THEN b[2] - a[4]
    ELSE IF a[2] >= b[4] THEN a[2] - b[4]
    ELSE 0

\* _bbox_horizontal_gap(a, b)
bbox_horizontal_gap(a, b) ==
    IF b[1] >= a[3] THEN b[1] - a[3]
    ELSE IF a[1] >= b[3] THEN a[1] - b[3]
    ELSE 0

\* y_inter / max(1.0, min(heights))
vertical_overlap(a, b) ==
    <<Max(0, Min(a[4], b[4]) - Max(a[2], b[2])),
      Max(Unit, Min(a[4] - a[2], b[4] - b[2]))>>

\* _should_merge_group_bboxes(a, b, page_w, page_h)
should_merge_group_bboxes(a, b, page_w0, page_h0) ==
    LET page_w == Max(Unit, page_w0)
        page_h == Max(Unit, page_h0)
        vgap == bbox_vertical_gap(a, b)
        hgap == bbox_horizontal_gap(a, b)
        hover == horizontal_overlap(a, b)
        yover == vertical_overlap(a, b)
    IN  /\ Len(a) = 4 /\ Len(b) = 4
        /\ \/ /\ vgap * 100 <= page_h * 18
              /\ (hover[1] * 100 >= 12 * hover[2] \/ hgap * 100 <= page_w * 8)
           \/ /\ hgap * 100 <= page_w * 8
              /\ (yover[1] * 100 >= 12 * yover[2] \/ vgap * 10 <= page_h)
           \/ vgap = 0 /\ hgap = 0

\* find(x) of the union-find; path halving does not change the root
RECURSIVE Find(_, _)
Find(parent, x) == IF parent[x] = x THEN x ELSE Find(parent, parent[x])

\* a union that links nothing
Union_unlinked(parent, a, b) == parent

\* union(a, b)
Union(parent, a, b) ==
    IF Find(parent, a) # Find(parent, b)
    THEN [parent EXCEPT ![Find(parent, b)] = Find(parent, a)]
    ELSE parent

\* lines 662-667: the double loop over i < j, from the pair (i, j) on
RECURSIVE MergeLoop(_, _, _, _, _, _)
MergeLoop(gb, parent, i, j, page_w, page_h) ==
    IF i > Len(gb) THEN parent
    ELSE IF j > Len(gb) THEN MergeLoop(gb, parent, i + 1, i + 2, page_w, page_h)
    ELSE IF gb[i] # NoBox /\ gb[j] # NoBox
            /\ should_merge_group_bboxes(gb[i], gb[j], page_w, page_h)
         THEN MergeLoop(gb, Union(parent, i, j), i, j + 1, page_w, page_h)
         ELSE MergeLoop(gb, parent, i, j + 1, page_w, page_h)

\* a caption that replaces the best one only when there is none yet
LowerCaption_first(cb, best_caption_bbox) == best_caption_bbox = NoBox

\* line 689: best_caption_bbox is None or cb[1] > best_caption_bbox[1]
LowerCaption(cb, best_caption_bbox) ==
    best_caption_bbox = NoBox \/ cb[2] > best_caption_bbox[2]

\* lines 681-695: the caption of a merged component, folded over its images;
\* acc = <<best_caption, best_caption_bbox>>
RECURSIVE MergedCaption(_, _, _, _)
MergedCaption(efs, images, k, acc) ==
    IF k > Len(images) THEN acc
    ELSE LET img_caption == Strip(efs[images[k]].caption)
             cb == efs[images[k]].caption_bbox
         IN  IF img_caption # <<>> /\ cb # NoBox /\ LowerCaption(cb, acc[2])
             THEN MergedCaption(efs, images, k + 1, <<img_caption, cb>>)
             ELSE IF img_caption # <<>> /\ cb = NoBox /\ acc[1] = <<>>
             THEN MergedCaption(efs, images, k + 1, <<img_caption, NoBox>>)
             ELSE MergedCaption(efs, images, k + 1, acc)

\* the concatenation of the image lists of the groups gs[idxs[1]], gs[idxs[2]], ...
RECURSIVE ConcatImages(_, _)
ConcatImages(gs, idxs) ==
    IF idxs = <<>> THEN <<>>
    ELSE gs[Head(idxs)].images \o ConcatImages(gs, Tail(idxs))

\* lines 634-705 for one page with more than one group
MergePage(efs, gs, page) ==
    LET gb == [k \in 1..Len(gs) |-> bbox_union(efs, gs[k].images)]
        boxed == {k \in 1..Len(gs) : gb[k] # NoBox}
        page_w == IF boxed = {} THEN 0 ELSE Max(0, MaxOf({gb[k][3] : k \in boxed}))
        page_h == IF boxed = {} THEN 0 ELSE Max(0, MaxOf({gb[k][4] : k \in boxed}))
        parent == MergeLoop(gb, Indexes(gs), 1, 2, page_w, page_h)
        roots == FirstSeen([k \in 1..Len(gs) |-> Find(parent, k)], <<>>)
        comp(c) == SelectSeq(Indexes(gs), LAMBDA k : Find(parent, k) = roots[c])
    IN  [c \in 1..Len(roots) |->
            [group_id |-> <<"pm", page, c>>,
             images |-> ConcatImages(gs, comp(c)),
             caption |-> MergedCaption(efs, ConcatImages(gs, comp(c)), 1, <<<<>>, NoBox>>)[1],
             caption_bbox |-> MergedCaption(efs, ConcatImages(gs, comp(c)), 1, <<<<>>, NoBox>>)[2],
             page_idx |-> page]]

\* lines 628-705 for the pages listed in page_list
RECURSIVE MergePages(_, _, _)
MergePages(efs, res, page_list) ==
    IF page_list = <<>> THEN <<>>
    ELSE LET gs == SelectSeq(res, LAMBDA g : PageOr0(g.page_idx) = Head(page_list))
         IN  (IF Len(gs) <= 1 THEN gs ELSE MergePage(efs, gs, Head(page_list)))
                 \o MergePages(efs, res, Tail(page_list))

\* _group_sort_key(g)
GroupSortKey(efs, gs) ==
    [k \in 1..Len(gs) |->
        LET ub == IF bbox_union(efs, gs[k].images) = NoBox THEN <<0, 0, 0, 0>>
                  ELSE bbox_union(efs, gs[k].images)
        IN  <<PageOr0(gs[k].page_idx), ub[2], ub[1]>>]

\* lines 621-718
Stage4(efs, res) ==
    LET merged == MergePages(efs, res,
                     FirstSeen([k \in 1..Len(res) |-> PageOr0(res[k].page_idx)], <<>>))
        order == SortBy(Indexes(merged), GroupSortKey(efs, merged))
    IN  [k \in 1..Len(order) |-> merged[order[k]]]

----------------------------------------------------------------------------
(* Page layout: configuration, caption bar and shared geometry.  Pixel     *)
(* quantities the code keeps in floats are exact quotients here; a value   *)
(* with halves is kept doubled (x2, col_w2).                               *)

\* int(n / d): truncation toward zero, d > 0
ToInt(n, d) == IF n >= 0 THEN n \div d ELSE 0 - ((0 - n) \div d)

\* keywords of the relevance filter: two of each default list
Kw_results == <<"r", "e", "s", "u", "l", "t", "s">>

Kw_ablation == <<"a", "b", "l", "a", "t", "i", "o", "n">>

Kw_method == <<"m", "e", "t", "h", "o", "d">>

Kw_model == <<"m", "o", "d", "e", "l">>

Kw_result == <<"r", "e", "s", "u", "l", "t">>

Kw_roc == <<"r", "o", "c">>

\* the RenderConfig that run() builds from the command-line defaults, at a
\* small font size; ratios are in thousandths
CliConfig(engine) ==
    [layout_engine |-> engine, caption_font_size |-> 8, caption_max_lines |-> 3,
     caption_bar_padding |-> 10, dpi |-> 22, masonry_columns |-> 2, masonry_padding_ratio |-> 30,
     masonry_gutter_ratio |-> 15, masonry_target_fill |-> 960,
     masonry_scale_max |-> 1250, tiles_per_page |-> 3, wide_ratio |-> 1300,
     caption_image_spacing |-> 12, results_only |-> TRUE,
     remove_embedded_caption |-> TRUE,
     heading_positive |-> {Kw_results, Kw_ablation},
     heading_negative |-> {Kw_method, Kw_model},
     caption_positive |-> {Kw_result, Kw_roc},
     caption_negative |-> {}]

\* the RenderConfig of the dataclass defaults, at the same font size
DataclassConfig(engine) ==
    [CliConfig(engine) EXCEPT !.masonry_gutter_ratio = 150, !.caption_image_spacing = 0]

\* draw.textbbox((0, 0), s, font)[2]: the width of a text in the caption font
TextWidth(s, c) == (c.caption_font_size \div 2) * Len(s)

\* draw.textbbox((0, 0), line, font)[3]: the height of a line in the caption font
LineHeight(c) == c.caption_font_size + 1

\* text.replace("\n", " ").split(): the words after position k; cur is the word being read
RECURSIVE SplitWords(_, _, _)
SplitWords(s, k, cur) ==
    IF k > Len(s) THEN (IF cur = <<>> THEN <<>> ELSE <<cur>>)
    ELSE IF IsSpace(s[k])
         THEN (IF cur = <<>> THEN <<>> ELSE <<cur>>) \o SplitWords(s, k + 1, <<>>)
         ELSE SplitWords(s, k + 1, Append(cur, s[k]))

\* " ".join(words)
RECURSIVE JoinWords(_)
JoinWords(ws) ==
    IF ws = <<>> THEN <<>>
    ELSE IF Len(ws) = 1 THEN ws[1]
    ELSE ws[1] \o <<" ">> \o JoinWords(Tail(ws))

\* last[:-1].rstrip()
RECURSIVE RStrip(_)
RStrip(s) ==
    IF s # <<>> /\ IsSpace(s[Len(s)]) THEN RStrip(SubSeq(s, 1, Len(s) - 1)) ELSE s

\* the loop that shortens the last line until it fits with the ellipsis
RECURSIVE Ellipsize(_, _, _)
Ellipsize(last, max_width, c) ==
    IF RLt(max_width, <<TextWidth(last \o <<".", ".", ".">>, c), 1>>) /\ last # <<>>
    THEN Ellipsize(RStrip(SubSeq(last, 1, Len(last) - 1)), max_width, c)
    ELSE last \o <<".", ".", ".">>

\* the word loop of wrap_lines and of _wrap_lines_pdf from word k on:
\* <<lines, current, truncated>>; max_width is a quotient of pixels
RECURSIVE WrapLoop(_, _, _, _, _, _)
WrapLoop(words, k, lines, cur, max_width, c) ==
    IF k > Len(words) THEN <<lines, cur, FALSE>>
    ELSE IF RLe(<<TextWidth(JoinWords(Append(cur, words[k])), c), 1>>, max_width)
         THEN WrapLoop(words, k + 1, lines, Append(cur, words[k]), max_width, c)
         ELSE LET lines1 == IF cur # <<>> THEN Append(lines, JoinWords(cur)) ELSE lines
              IN  IF Len(lines1) >= c.caption_max_lines
                  THEN <<lines1, <<words[k]>>, TRUE>>
                  ELSE WrapLoop(words, k + 1, lines1, <<words[k]>>, max_width, c)

\* wrap_lines(text, font, max_width, max_lines); _wrap_lines_pdf has the same
\* body and measures with stringWidth
wrap_lines(t, max_width, c) ==
    Local(SplitWords(t, 1, <<>>), LAMBDA words :
    Local(WrapLoop(words, 1, <<>>, <<>>, max_width, c), LAMBDA r :
    Local(IF r[2] # <<>> /\ Len(r[1]) < c.caption_max_lines
          THEN Append(r[1], JoinWords(r[2])) ELSE r[1], LAMBDA lines1 :
    Local(Len(lines1) > c.caption_max_lines, LAMBDA over :
    Local(IF over THEN SubSeq(lines1, 1, c.caption_max_lines) ELSE lines1, LAMBDA lines2 :
        IF words = <<>> THEN <<>>
        ELSE IF (r[3] \/ over) /\ lines2 # <<>>
             THEN [lines2 EXCEPT ![Len(lines2)] = Ellipsize(@, max_width, c)]
             ELSE lines2)))))

\* the font and the line limit of a call of wrap_lines, as the fields of the
\* configuration that render_caption_bar passes on
WrapFont(a) == [caption_font_size |-> a.font_size, caption_max_lines |-> a.max_lines]

\* a call wrap_lines(text, font, max_width, max_lines)
Wrap ==
    /\ tpc = "wrap"
    /\ wrapped' = wrap_lines(text, <<wrap_args.max_width, 1>>, WrapFont(wrap_args))
    /\ tpc' = "wrapped"
    /\ UNCHANGED <<text, purified, is_valid, fnum, wrap_args>>

\* render_caption_bar(text, width, cfg): the height of the bar, 0 for None;
\* the width of the bar is the width asked for
render_caption_bar(t, width, c) ==
    Local(IF t = <<>> THEN <<>>
          ELSE wrap_lines(t, <<Max(1, width - c.caption_bar_padding * 2), 1>>, c),
          LAMBDA lines :
        IF lines = <<>> THEN 0
        ELSE Len(lines) * LineHeight(c) + (Len(lines) - 1) * 2
                 + c.caption_bar_padding * 2)

\* padding = max(1, int(canvas_w * cfg.masonry_padding_ratio))
padding(cs, c) == Max(1, (cs[1] * c.masonry_padding_ratio) \div 1000)

\* gutter = max(1, int(canvas_w * cfg.masonry_gutter_ratio))
gutter(cs, c) == Max(1, (cs[1] * c.masonry_gutter_ratio) \div 1000)

\* available_w = max(1, canvas_w - 2 * padding)
available_w(cs, c) == Max(1, cs[1] - 2 * padding(cs, c))

\* available_h = max(1, canvas_h - 2 * padding)
available_h(cs, c) == Max(1, cs[2] - 2 * padding(cs, c))

\* caption_spacing = cfg.caption_image_spacing if cfg.caption_image_spacing > 0 else gutter
caption_spacing(cs, c) ==
    IF c.caption_image_spacing > 0 THEN c.caption_image_spacing ELSE gutter(cs, c)

\* ratio >= cfg.wide_ratio, with ratio = tile.width / max(1.0, tile.height)
IsWide(tile, c) == 1000 * tile[1] >= c.wide_ratio * Max(1, tile[2])

----------------------------------------------------------------------------
(* Hybrid packer: pack_tiles_hybrid.  A tile is <<width, height>>.         *)

\* col_w = (available_w - gutter) / 2.0, doubled
col_w2(cs, c) == available_w(cs, c) - gutter(cs, c)

\* scaled_size(img, target_w) for target_w = tn / td
scaled_size(img, tn, td) ==
    Local(Max(1, ToInt(tn, td)), LAMBDA w :
    Local(Max(1, ToInt(img[2] * tn, td * img[1])), LAMBDA h :
        IF w * td > tn THEN <<ToInt(tn, td), h>> ELSE <<w, h>>))

\* bar.height + caption_spacing when the caption yields a bar, else 0
BarSpace(caption, w, cs, c) ==
    Local(IF caption = <<>> THEN 0 ELSE render_caption_bar(caption, w, c), LAMBDA bar_h :
        IF bar_h > 0 THEN bar_h + caption_spacing(cs, c) ELSE 0)

\* min(scale_w, scale_h) of the shrink in flush_page, as a quotient
ShrinkScale(w_plan, h_plan, max_w, max_h) ==
    Local(IF w_plan > max_w THEN <<max_w, w_plan>> ELSE <<1, 1>>, LAMBDA scale_w :
    Local(IF h_plan > max_h THEN <<max_h, h_plan>> ELSE <<1, 1>>, LAMBDA scale_h :
        IF RLe(scale_w, scale_h) THEN scale_w ELSE scale_h))

\* the image block of one planned item: <<w_final, h_final>> before the caption is drawn
ImageBlock(w_plan, h_plan, max_w, max_h) ==
    IF w_plan > max_w \/ h_plan > max_h
    THEN Local(ShrinkScale(w_plan, h_plan, max_w, max_h), LAMBDA scale :
             <<Max(1, ToInt(w_plan * scale[1], scale[2])),
               Max(1, ToInt(h_plan * scale[1], scale[2]))>>)
    ELSE <<w_plan, h_plan>>

\* lines 1433-1446: the offset that centres the content of a one-tile page, doubled
vertical_offset2(planned, caps, cs, c) ==
    Local(planned[Len(planned)], LAMBDA last_item :
    Local(last_item.y + last_item.h + BarSpace(caps[last_item.tile], last_item.w, cs, c),
          LAMBDA total_content_height :
    Local(cs[2] - 2 * padding(cs, c), LAMBDA avail :
        IF Len(planned) = 1 /\ total_content_height > 0
           /\ 10 * total_content_height < 8 * avail
        THEN Max(0, avail - total_content_height)
        ELSE 0)))

\* the body of the loop of flush_page for the planned item p: what is pasted
RenderItem(p, offset2, caps, cs, c) ==
    Local(caps[p.tile], LAMBDA caption :
    Local(Max(0, ToInt(p.x2 + 2 * padding(cs, c), 2)), LAMBDA x_final :
    Local(Max(0, ToInt(2 * p.y + 2 * padding(cs, c) + offset2, 2)), LAMBDA y_final :
    Local(cs[1] - x_final, LAMBDA max_w :
    Local(cs[2] - y_final - BarSpace(caption, p.w, cs, c), LAMBDA max_h_for_image :
    Local(ImageBlock(p.w, p.h, max_w, max_h_for_image), LAMBDA first :
    Local(first[1] > 0 /\ first[2] > 0, LAMBDA drawn :
    Local(IF caption = <<>> THEN 0 ELSE render_caption_bar(caption, p.w, c), LAMBDA bar_h :
    Local(drawn /\ caption # <<>> /\ bar_h > 0, LAMBDA has_bar :
    Local(caption_spacing(cs, c), LAMBDA spacing :
    Local(has_bar /\ y_final + first[2] + spacing + bar_h > cs[2], LAMBDA overflow :
    Local(cs[2] - bar_h, LAMBDA max_caption_y :
    Local(overflow /\ max_caption_y > y_final, LAMBDA redrawn :
    Local(IF redrawn THEN Max(1, max_caption_y - y_final - spacing) ELSE first[2],
          LAMBDA h_final :
    Local(has_bar /\ (overflow => redrawn), LAMBDA keep_bar :
    Local(y_final + h_final + spacing, LAMBDA caption_y :
    Local(IF x_final + p.w > cs[1] THEN Max(0, cs[1] - p.w) ELSE x_final, LAMBDA caption_x :
    Local(keep_bar /\ caption_y + bar_h <= cs[2] /\ caption_x + p.w <= cs[1],
          LAMBDA cap_drawn :
        [tile |-> p.tile, drawn |-> drawn, x |-> x_final, y |-> y_final,
         w |-> first[1], h |-> h_final, h_first |-> first[2], h_plan |-> p.h,
         redrawn |-> redrawn,
         cap_drawn |-> cap_drawn, cap_x |-> caption_x, cap_y |-> caption_y,
         cap_w |-> p.w, cap_h |-> bar_h]))))))))))))))))))

\* flush_page(): the page rendered from the planned items and its stats
flush_page(planned, height, caps, cs, c) ==
    Local(vertical_offset2(planned, caps, cs, c), LAMBDA offset2 :
        [items |-> [k \in 1..Len(planned) |-> RenderItem(planned[k], offset2, caps, cs, c)],
         height_used |-> height])

\* a packer that never opens a new page
PlaceRow_onePage(st, items, total_h, caps, cs, c) ==
    [current |-> st.current
                    \o [k \in 1..Len(items) |->
                           [tile |-> items[k].tile, x2 |-> items[k].x2,
                            y |-> st.used_h, w |-> items[k].w, h |-> items[k].h]],
     used_h |-> st.used_h + total_h + gutter(cs, c),
     pages |-> st.pages]

\* "if used_h + total_h > available_h and used_h > 0: flush_page() ...", then the
\* planned items are appended at y = used_h; st = [current, used_h, pages]
PlaceRow(st, items, total_h, caps, cs, c) ==
    Local(IF st.used_h + total_h > available_h(cs, c) /\ st.used_h > 0
          THEN [current |-> <<>>, used_h |-> 0,
                pages |-> Append(st.pages, flush_page(st.current, st.used_h, caps, cs, c))]
          ELSE st, LAMBDA base :
        [current |-> base.current
                        \o [k \in 1..Len(items) |->
                               [tile |-> items[k].tile, x2 |-> items[k].x2,
                                y |-> base.used_h, w |-> items[k].w, h |-> items[k].h]],
         used_h |-> base.used_h + total_h + gutter(cs, c),
         pages |-> base.pages])

\* a narrow tile left alone in its row, centred; clamp is the min(w, int(col_w))
\* that only the code after the loop applies
PlaceSingle(st, i, clamp, ts, caps, cs, c) ==
    Local(scaled_size(ts[i], col_w2(cs, c), 2), LAMBDA s :
    Local(IF clamp THEN Min(s[1], ToInt(col_w2(cs, c), 2)) ELSE s[1], LAMBDA w :
        PlaceRow(st,
                 <<[tile |-> i, x2 |-> Max(0, available_w(cs, c) - w), w |-> w, h |-> s[2]]>>,
                 s[2] + BarSpace(caps[i], w, cs, c), caps, cs, c)))

\* a wide tile in a row of its own
PlaceWide(st, i, ts, caps, cs, c) ==
    Local(scaled_size(ts[i], available_w(cs, c), 1), LAMBDA s :
    Local(Min(s[1], available_w(cs, c)), LAMBDA w :
        PlaceRow(st, <<[tile |-> i, x2 |-> 0, w |-> w, h |-> s[2]]>>,
                 s[2] + BarSpace(caps[i], w, cs, c), caps, cs, c)))

\* two narrow tiles side by side
PlacePair(st, left, i, ts, caps, cs, c) ==
    Local(scaled_size(ts[left], col_w2(cs, c), 2), LAMBDA s1 :
    Local(scaled_size(ts[i], col_w2(cs, c), 2), LAMBDA s2 :
    Local(Min(s1[1], ToInt(col_w2(cs, c), 2)), LAMBDA w1 :
    Local(Min(s2[1], ToInt(col_w2(cs, c), 2)), LAMBDA w2 :
        PlaceRow(st,
                 <<[tile |-> left, x2 |-> 0, w |-> w1, h |-> s1[2]],
                   [tile |-> i, x2 |-> col_w2(cs, c) + 2 * gutter(cs, c), w |-> w2,
                    h |-> s2[2]]>>,
                 Max(s1[2] + BarSpace(caps[left], w1, cs, c),
                     s2[2] + BarSpace(caps[i], w2, cs, c)),
                 caps, cs, c)))))

\* an iteration that never pairs: the pending narrow tile gets a row of its own
HybridTile_unpaired(st, pending, i, ts, caps, cs, c) ==
    IF IsWide(ts[i], c)
    THEN <<PlaceWide(IF pending # 0
                     THEN PlaceSingle(st, pending, FALSE, ts, caps, cs, c) ELSE st,
                     i, ts, caps, cs, c),
           0>>
    ELSE IF pending = 0 THEN <<st, i>>
         ELSE <<PlaceSingle(st, pending, TRUE, ts, caps, cs, c), i>>

\* one iteration of the loop over tiles: <<st, pending_left>> after tile i
HybridTile(st, pending, i, ts, caps, cs, c) ==
    IF IsWide(ts[i], c)
    THEN <<PlaceWide(IF pending # 0
                     THEN PlaceSingle(st, pending, FALSE, ts, caps, cs, c) ELSE st,
                     i, ts, caps, cs, c),
           0>>
    ELSE IF pending = 0 THEN <<st, i>>
         ELSE <<PlacePair(st, pending, i, ts, caps, cs, c), 0>>

\* an end of the loop that forgets the pending tile
HybridFinish_dropPending(st, pending, ts, caps, cs, c) ==
    IF st.current = <<>> THEN st.pages
    ELSE Append(st.pages, flush_page(st.current, st.used_h, caps, cs, c))

\* the code after the loop: the pending tile, then the last flush_page()
HybridFinish(st, pending, ts, caps, cs, c) ==
    Local(IF pending # 0 THEN PlaceSingle(st, pending, TRUE, ts, caps, cs, c) ELSE st,
          LAMBDA st1 :
        IF st1.current = <<>> THEN st1.pages
        ELSE Append(st1.pages, flush_page(st1.current, st1.used_h, caps, cs, c)))

\* pack_tiles_hybrid(tiles, captions, canvas_size, cfg) from tile i on
RECURSIVE HybridFrom(_, _, _, _, _, _, _)
HybridFrom(st, pending, i, ts, caps, cs, c) ==
    IF i > Len(ts) THEN HybridFinish(st, pending, ts, caps, cs, c)
    ELSE Local(HybridTile(st, pending, i, ts, caps, cs, c), LAMBDA r :
             HybridFrom(r[1], r[2], i + 1, ts, caps, cs, c))

pack_tiles_hybrid(ts, caps, cs, c) ==
    IF ts = <<>> THEN <<>>
    ELSE HybridFrom([current |-> <<>>, used_h |-> 0, pages |-> <<>>], 0, 1, ts, caps, cs, c)

----------------------------------------------------------------------------
(* Justified-rows packer: _pack_tiles_justified_rows.  Placements are      *)
(* floats in the code and exact quotients here.                            *)

\* ratio = tile.width / max(1.0, float(tile.height))
TileRatio(tile) == RNorm(<<tile[1], Max(1, tile[2])>>)

\* target_row_h = max(80, int(available_w / max(1.0, (cfg.masonry_columns + 0.5))))
target_row_h(cs, c) ==
    Max(80, ToInt(2 * available_w(cs, c), Max(2, 2 * c.masonry_columns + 1)))

\* (available_w - gutter_px * (len(row_tiles) - 1)) / max(row_ratio_sum, 1.0)
RowHeight(n, row_ratio_sum, cs, c) ==
    RDiv(<<available_w(cs, c) - gutter(cs, c) * (n - 1), 1>>, RMax(row_ratio_sum, <<1, 1>>))

\* lines 1975-1985: <<cap_h_px, cap_total_px>> of a caption under a tile of width w
RowCaption(cap, w, c) ==
    IF cap = <<>> THEN << <<0, 1>>, <<0, 1>> >>
    ELSE Local(RMax(<<c.dpi, 72>>, RSub(w, <<c.caption_bar_padding * 2, 1>>)),
               LAMBDA max_width :
         Local(wrap_lines(cap, max_width, c), LAMBDA lines :
         Local(<<c.caption_font_size * 122, 100>>, LAMBDA line_h_px :
         Local(RAdd(RMul(<<Max(1, Len(lines)), 1>>, line_h_px),
                    <<c.caption_bar_padding * 2, 1>>), LAMBDA cap_h_px :
             <<cap_h_px, RAdd(cap_h_px, <<c.caption_image_spacing, 1>>)>>))))

\* the placements of a row from its k-th tile on, the first of them at x
RECURSIVE RowPlacements(_, _, _, _, _, _, _, _)
RowPlacements(row_tiles, k, x, row_h, y0, caps, cs, c) ==
    IF k > Len(row_tiles) THEN <<>>
    ELSE Local(RMul(row_h, row_tiles[k][2]), LAMBDA w :
             <<[tile_idx |-> row_tiles[k][1], x |-> x, y |-> y0, w |-> w, h |-> row_h,
                cap_h |-> RowCaption(caps[row_tiles[k][1]], w, c)[1]]>>
             \o RowPlacements(row_tiles, k + 1, RAdd(RAdd(x, w), <<gutter(cs, c), 1>>),
                              row_h, y0, caps, cs, c))

\* max_tile_total_h: the largest h + cap_total_px of the row
RECURSIVE RowTotalHeight(_, _, _, _)
RowTotalHeight(ps, k, caps, c) ==
    IF k > Len(ps) THEN <<0, 1>>
    ELSE RMax(RAdd(ps[k].h, RowCaption(caps[ps[k].tile_idx], ps[k].w, c)[2]),
              RowTotalHeight(ps, k + 1, caps, c))

\* emit_row(row_tiles, row_ratio_sum, row_height); st = [pages, current_page, used_h]
emit_row(st, row_tiles, row_ratio_sum, row_height, caps, cs, c) ==
    IF row_tiles = <<>> THEN st
    ELSE
    Local(RAdd(RMul(row_height, row_ratio_sum),
               <<gutter(cs, c) * Max(0, Len(row_tiles) - 1), 1>>), LAMBDA total_row_w :
    Local(IF RLt(<<0, 1>>, total_row_w)
          THEN RDiv(<<available_w(cs, c), 1>>, total_row_w) ELSE <<1, 1>>, LAMBDA scale :
    Local(RMul(row_height, scale), LAMBDA row_h :
    Local(RowPlacements(row_tiles, 1, <<0, 1>>, row_h, st.used_h, caps, cs, c),
          LAMBDA placements :
    Local(RowTotalHeight(placements, 1, caps, c), LAMBDA max_tile_total_h :
    Local(/\ RLt(<<available_h(cs, c), 1>>, RAdd(st.used_h, max_tile_total_h))
          /\ RLt(<<0, 1>>, st.used_h), LAMBDA paginate :
    Local(IF paginate THEN <<0, 1>> ELSE st.used_h, LAMBDA used1 :
        [pages |-> IF paginate /\ st.current_page # <<>>
                   THEN Append(st.pages, st.current_page) ELSE st.pages,
         current_page |-> (IF paginate THEN <<>> ELSE st.current_page)
                              \o [k \in 1..Len(placements) |->
                                     [placements[k] EXCEPT !.y = used1]],
         used_h |-> RAdd(RAdd(used1, max_tile_total_h), <<gutter(cs, c), 1>>)])))))))

\* one iteration of the loop over tiles: <<st, row_tiles, row_ratio_sum>> after tile i
RowsTile(st, row_tiles, row_ratio_sum, i, ts, caps, cs, c) ==
    Local(TileRatio(ts[i]), LAMBDA ratio :
        IF IsWide(ts[i], c)
        THEN <<emit_row(emit_row(st, row_tiles, row_ratio_sum,
                                 RowHeight(Len(row_tiles), row_ratio_sum, cs, c),
                                 caps, cs, c),
                        <<<<i, ratio>>>>, ratio,
                        RDiv(<<available_w(cs, c), 1>>, ratio), caps, cs, c),
               <<>>, <<0, 1>>>>
        ELSE
        Local(Append(row_tiles, <<i, ratio>>), LAMBDA row1 :
        Local(RAdd(row_ratio_sum, ratio), LAMBDA sum1 :
        Local(RowHeight(Len(row1), sum1, cs, c), LAMBDA row_h :
            IF RLe(row_h, <<target_row_h(cs, c) * 115, 100>>)
            THEN <<emit_row(st, row1, sum1, row_h, caps, cs, c), <<>>, <<0, 1>>>>
            ELSE <<st, row1, sum1>>))))

\* the loop over tiles from tile i on, and the code after it: the pages
RECURSIVE RowsFrom(_, _, _, _, _, _, _, _)
RowsFrom(st, row_tiles, row_ratio_sum, i, ts, caps, cs, c) ==
    IF i > Len(ts)
    THEN Local(emit_row(st, row_tiles, row_ratio_sum,
                        RowHeight(Len(row_tiles), row_ratio_sum, cs, c), caps, cs, c),
               LAMBDA st1 :
             IF st1.current_page # <<>> THEN Append(st1.pages, st1.current_page)
             ELSE st1.pages)
    ELSE Local(RowsTile(st, row_tiles, row_ratio_sum, i, ts, caps, cs, c), LAMBDA r :
             RowsFrom(r[1], r[2], r[3], i + 1, ts, caps, cs, c))

pack_tiles_justified_rows(ts, caps, cs, c) ==
    RowsFrom([pages |-> <<>>, current_page |-> <<>>, used_h |-> <<0, 1>>],
             <<>>, <<0, 1>>, 1, ts, caps, cs, c)

----------------------------------------------------------------------------
(* Masonry packer: pack_tiles_masonry.                                     *)

\* choose_columns(tiles, cfg)
choose_columns(c) == Max(1, c.masonry_columns)

\* available_w = max(1, canvas_w - 2 * padding - gutter * (cols - 1))
masonry_available_w(cs, c) ==
    Max(1, cs[1] - 2 * padding(cs, c) - gutter(cs, c) * (choose_columns(c) - 1))

\* col_w = available_w / float(cols)
masonry_col_w(cs, c) == <<masonry_available_w(cs, c), choose_columns(c)>>

\* <<tw, th>> of a tile in layout_page(page_tiles, scale)
MasonrySize(tile, scale, cs, c) ==
    Local(masonry_col_w(cs, c), LAMBDA col_w :
    Local(RDiv(col_w, <<tile[1], 1>>), LAMBDA base_scale :
    Local(IF tile[2] > 0 THEN <<available_h(cs, c), tile[2]>> ELSE base_scale,
          LAMBDA height_scale :
    Local(RMul(base_scale, RMin(scale, <<1, 1>>)), LAMBDA width_scale :
    Local(RMul(base_scale, scale), LAMBDA height_scale_unconstrained :
    Local(RMin(width_scale, RMin(height_scale_unconstrained, height_scale)),
          LAMBDA scale_fit :
    Local(Max(1, ToInt(tile[1] * scale_fit[1], scale_fit[2])), LAMBDA tw :
    Local(Max(1, ToInt(tile[2] * scale_fit[1], scale_fit[2])), LAMBDA th :
        IF RLt(col_w, <<tw, 1>>)
        THEN <<ToInt(col_w[1], col_w[2]),
               Max(1, ToInt(tile[2] * base_scale[1], base_scale[2]))>>
        ELSE <<tw, th>>))))))))

\* min(range(cols), key=lambda i: col_heights[i]): the first lowest column
LowestColumn(col_heights) ==
    CHOOSE i \in 1..Len(col_heights) :
        /\ \A j \in 1..Len(col_heights) : col_heights[i] <= col_heights[j]
        /\ \A j \in 1..(i - 1) : col_heights[j] > col_heights[i]

\* the x of a tile of width tw in column col_idx (counted from 0), a quotient
MasonryX(col_idx, tw, cs, c) ==
    Local(masonry_col_w(cs, c), LAMBDA col_w :
    Local(RMul(<<col_idx, 1>>, RAdd(col_w, <<gutter(cs, c), 1>>)), LAMBDA left :
    Local(RMax(<<0, 1>>, RAdd(left, RDiv(RSub(col_w, <<tw, 1>>), <<2, 1>>))),
          LAMBDA centred :
        RMin(centred, RSub(RAdd(left, col_w), <<tw, 1>>)))))

\* layout_page(page_tiles, scale) from the k-th tile of the page on:
\* <<placements, col_heights>>; page_tiles holds tile indexes
RECURSIVE layout_page(_, _, _, _, _, _, _, _)
layout_page(page_tiles, k, scale, placements, col_heights, ts, cs, c) ==
    IF k > Len(page_tiles) THEN <<placements, col_heights>>
    ELSE Local(MasonrySize(ts[page_tiles[k]], scale, cs, c), LAMBDA size :
         Local(LowestColumn(col_heights), LAMBDA col :
             layout_page(page_tiles, k + 1, scale,
                         Append(placements,
                                [tile |-> page_tiles[k],
                                 x |-> MasonryX(col - 1, size[1], cs, c),
                                 y |-> <<col_heights[col], 1>>,
                                 w |-> size[1], h |-> size[2]]),
                         [col_heights EXCEPT ![col] = @ + size[2] + gutter(cs, c)],
                         ts, cs, c)))

\* the placements of one page and its h_used (lines 2207-2224)
MasonryPlan(page_tiles, ts, cs, c) ==
    IF Len(page_tiles) = 1
    THEN Local(ts[page_tiles[1]], LAMBDA tile :
         Local(RMin(<<masonry_available_w(cs, c), tile[1]>>,
                    <<available_h(cs, c), tile[2]>>), LAMBDA scale_fit :
         Local(Max(1, ToInt(tile[1] * scale_fit[1], scale_fit[2])), LAMBDA tw :
         Local(Max(1, ToInt(tile[2] * scale_fit[1], scale_fit[2])), LAMBDA th :
             <<[tile |-> page_tiles[1],
                x |-> <<masonry_available_w(cs, c) - tw, 2>>,
                y |-> <<available_h(cs, c) - th, 2>>, w |-> tw, h |-> th]>>))))
    ELSE Local([i \in 1..choose_columns(c) |-> 0], LAMBDA zero :
         Local(layout_page(page_tiles, 1, <<1, 1>>, <<>>, zero, ts, cs, c), LAMBDA first :
         Local(MaxOf({first[2][i] : i \in 1..Len(first[2])}), LAMBDA h_used :
         Local(<<c.masonry_target_fill * available_h(cs, c), 1000>>, LAMBDA target :
             IF h_used > 0 /\ RLt(<<h_used, 1>>, target)
             THEN layout_page(page_tiles, 1,
                              RMin(<<c.masonry_scale_max, 1000>>,
                                   RDiv(target, <<h_used, 1>>)),
                              <<>>, zero, ts, cs, c)[1]
             ELSE first[1]))))

\* max(col_heights) of layout_page(page_tiles, scale)
MasonryColumnsHeight(page_tiles, scale, ts, cs, c) ==
    Local(layout_page(page_tiles, 1, scale, <<>>, [i \in 1..choose_columns(c) |-> 0],
                      ts, cs, c)[2], LAMBDA col_heights :
        MaxOf({col_heights[i] : i \in 1..Len(col_heights)}))

\* lines 2210-2217: h_used of a page before the one-tile case
MasonryUsed(page_tiles, ts, cs, c) ==
    Local(MasonryColumnsHeight(page_tiles, <<1, 1>>, ts, cs, c), LAMBDA h_used :
    Local(<<c.masonry_target_fill * available_h(cs, c), 1000>>, LAMBDA target :
        IF h_used > 0 /\ RLt(<<h_used, 1>>, target)
        THEN MasonryColumnsHeight(page_tiles,
                                  RMin(<<c.masonry_scale_max, 1000>>,
                                       RDiv(target, <<h_used, 1>>)),
                                  ts, cs, c)
        ELSE h_used))

\* lines 2226-2246: what is pasted for the placement p
MasonryRender(p, cs, c) ==
    Local(Max(0, ToInt(p.x[1] + padding(cs, c) * p.x[2], p.x[2])), LAMBDA x_final :
    Local(Max(0, ToInt(p.y[1] + padding(cs, c) * p.y[2], p.y[2])), LAMBDA y_final :
    Local(Min(p.w, cs[1] - x_final), LAMBDA w_final :
    Local(Min(p.h, cs[2] - y_final), LAMBDA h_final :
        [tile |-> p.tile, drawn |-> w_final > 0 /\ h_final > 0,
         x |-> x_final, y |-> y_final, w |-> w_final, h |-> h_final]))))

\* one iteration of the while loop: the page of the tiles idx + 1 .. idx + per_page
MasonryPage(i, ts, cs, c) ==
    Local(Max(1, c.tiles_per_page), LAMBDA per_page :
    Local([k \in 1..Min(per_page, Len(ts) - i) |-> i + k], LAMBDA page_tiles :
    Local(MasonryPlan(page_tiles, ts, cs, c), LAMBDA placements :
        [items |-> [k \in 1..Len(placements) |-> MasonryRender(placements[k], cs, c)]])))

----------------------------------------------------------------------------
(* process_paper after grouping: the loop over the figure groups, the      *)
(* choice of the layout engine and the report.  A figure group is         *)
(* [group_id, images, caption, tile, text_like]; a member of images is    *)
(* [entry |-> [heading, caption], readable]: readable says that the image *)
(* file of the member exists and opens.  tile is the size of the image    *)
(* that compose_figure_group makes of the readable members, text_like     *)
(* what is_text_like says of that image.                                  *)

SkipReasons == {"heading_negative", "no_results_signal", "group_compose_error", "text_like"}

\* k in t
Contains(t, k) == \E p \in 1..(Len(t) - Len(k) + 1) : SubSeq(t, p, p + Len(k) - 1) = k

has_keyword(t, keywords) ==
    \E k \in keywords : Contains([i \in 1..Len(t) |-> Lower(t[i])], k)

\* <<keep, reason>>
keep_entry(entry, c) ==
    IF ~c.results_only THEN <<TRUE, "all_figures">>
    ELSE IF has_keyword(entry.caption, c.caption_positive) THEN <<TRUE, "caption_positive">>
    ELSE IF /\ has_keyword(entry.heading, c.heading_positive)
            /\ ~has_keyword(entry.caption, c.caption_negative)
         THEN <<TRUE, "heading_positive">>
    ELSE IF /\ has_keyword(entry.heading, c.heading_negative)
            /\ ~has_keyword(entry.caption, c.caption_positive)
         THEN <<FALSE, "heading_negative">>
    ELSE <<FALSE, "no_results_signal">>

\* the members compose_figure_group loads: the first one alone of a group of
\* three or more
ComposeMembers(images) == IF Len(images) > 2 THEN SubSeq(images, 1, 1) ELSE images

\* compose_figure_group raises: the only member it loads is unreadable, or
\* neither of the two members it loads is readable
ComposeFails(group) ==
    \A k \in 1..Len(ComposeMembers(group.images)) : ~ComposeMembers(group.images)[k].readable

\* the loop body without the except branches around compose_figure_group
GroupFate_uncaught(group, c) ==
    IF ~keep_entry(group.images[1].entry, c)[1] THEN keep_entry(group.images[1].entry, c)[2]
    ELSE IF group.text_like THEN "text_like"
    ELSE "keep"

\* what the loop body does with a group: "skip" with the reason counted, or "keep"
GroupFate(group, c) ==
    IF ~keep_entry(group.images[1].entry, c)[1] THEN keep_entry(group.images[1].entry, c)[2]
    ELSE IF ComposeFails(group) THEN "group_compose_error"
    ELSE IF group.text_like THEN "text_like"
    ELSE "keep"

\* the caption appended to captions_list without the final validation
FinalCaption_unvalidated(group_caption) == group_caption

\* lines 2329-2333: purified_caption, or "" when the validator rejects the caption
FinalCaption(group_caption) ==
    Local(purify_caption(group_caption), LAMBDA r : IF r[2] THEN r[1] ELSE <<>>)

\* a skip that is not counted
CountSkip_lost(counts, reason) == counts

\* skipped[reason] = skipped.get(reason, 0) + 1
CountSkip(counts, reason) == [counts EXCEPT ![reason] = @ + 1]

\* one iteration of "for group in figure_groups"
ProcessGroup ==
    /\ lpc = "groups"
    /\ gi < Len(figure_groups)
    /\ gi' = gi + 1
    /\ LET group == figure_groups[gi + 1]
       IN  IF group.images = <<>>
           THEN UNCHANGED <<tiles, captions_list, matched_meta, used, skipped>>
           ELSE IF GroupFate(group, cfg) \in SkipReasons
           THEN /\ skipped' = CountSkip(skipped, GroupFate(group, cfg))
                /\ UNCHANGED <<tiles, captions_list, matched_meta, used>>
           ELSE /\ tiles' = Append(tiles, group.tile)
                /\ captions_list' = Append(captions_list, FinalCaption(group.caption))
                /\ matched_meta' = Append(matched_meta,
                                          [group_id |-> group.group_id,
                                           caption |-> FinalCaption(group.caption),
                                           heading |-> group.images[1].entry.heading,
                                           keep_reason |->
                                               keep_entry(group.images[1].entry, cfg)[2],
                                           num_subfigures |-> Len(group.images)])
                /\ used' = used + 1
                /\ UNCHANGED skipped
    /\ UNCHANGED <<out_pngs, cfg, canvas_size, figure_groups, idx, pending_left, current, used_h,
                   pages, rl_pages, page_stats, report, lpc>>

LoopDone == lpc = "groups" /\ gi = Len(figure_groups)

\* the per-page stats of the html and reportlab engines
EngineStats(n, ts) == [i \in 1..n |-> [page |-> i, tiles |-> Len(ts)]]

\* cfg.layout_engine == "reportlab" and render_tiles_via_reportlab_to_png returns
LayoutReportlab ==
    /\ LoopDone
    /\ cfg.layout_engine = "reportlab"
    /\ rl_pages' = IF tiles = <<>> THEN <<>>
                   ELSE pack_tiles_justified_rows(tiles, captions_list, canvas_size, cfg)
    /\ page_stats' = EngineStats(Len(rl_pages'), tiles)
    /\ out_pngs' = [i \in 1..Len(rl_pages') |-> "reportlab"]
    /\ lpc' = "hybrid"
    /\ UNCHANGED <<cfg, canvas_size, figure_groups, gi, tiles, captions_list, matched_meta, used,
                   skipped, idx, pending_left, current, used_h, pages, report>>

\* ... or raises: the engine falls back to "pil"
LayoutReportlabFails ==
    /\ LoopDone
    /\ cfg.layout_engine = "reportlab"
    /\ tiles # <<>>
    /\ cfg' = [cfg EXCEPT !.layout_engine = "pil"]
    /\ lpc' = "hybrid"
    /\ UNCHANGED <<out_pngs, canvas_size, figure_groups, gi, tiles, captions_list, matched_meta, used,
                   skipped, idx, pending_left, current, used_h, pages, rl_pages,
                   page_stats, report>>

\* cfg.layout_engine == "html" and render_tiles_via_html_to_png returns; the
\* browser decides the number of pages
LayoutHtml ==
    /\ LoopDone
    /\ cfg.layout_engine = "html"
    /\ \E n \in 0..Len(tiles) :
          /\ (n = 0) <=> (tiles = <<>>)
          /\ page_stats' = EngineStats(n, tiles)
          /\ out_pngs' = [i \in 1..n |-> "html"]
    /\ lpc' = "report"
    /\ UNCHANGED <<cfg, canvas_size, figure_groups, gi, tiles, captions_list, matched_meta, used,
                   skipped, idx, pending_left, current, used_h, pages, rl_pages, report>>

\* ... or raises: the engine falls back to "pil"
LayoutHtmlFails ==
    /\ LoopDone
    /\ cfg.layout_engine = "html"
    /\ tiles # <<>>
    /\ cfg' = [cfg EXCEPT !.layout_engine = "pil"]
    /\ lpc' = "hybrid"
    /\ UNCHANGED <<out_pngs, canvas_size, figure_groups, gi, tiles, captions_list, matched_meta, used,
                   skipped, idx, pending_left, current, used_h, pages, rl_pages,
                   page_stats, report>>

\* any other engine goes straight to the hybrid packer
LayoutPil ==
    /\ LoopDone
    /\ cfg.layout_engine \notin {"reportlab", "html"}
    /\ lpc' = "hybrid"
    /\ UNCHANGED <<out_pngs, cfg, canvas_size, figure_groups, gi, tiles, captions_list, matched_meta, used,
                   skipped, idx, pending_left, current, used_h, pages, rl_pages,
                   page_stats, report>>

\* the locals of pack_tiles_hybrid after an iteration that yields r
HybridLocals(r) ==
    /\ current' = r[1].current
    /\ used_h' = r[1].used_h
    /\ pages' = r[1].pages
    /\ pending_left' = r[2]

\* pack_tiles_hybrid: one iteration of the loop over tiles
HybridStep ==
    /\ lpc = "hybrid"
    /\ idx < Len(tiles)
    /\ HybridLocals(HybridTile([current |-> current, used_h |-> used_h, pages |-> pages],
                               pending_left, idx + 1, tiles, captions_list, canvas_size,
                               cfg))
    /\ idx' = idx + 1
    /\ UNCHANGED <<out_pngs, cfg, canvas_size, figure_groups, gi, tiles, captions_list, matched_meta, used,
                   skipped, rl_pages, page_stats, report, lpc>>

\* page.save(out_dir / f"{i:02d}.png") for each of the n hybrid pages: files
\* of the same names are overwritten, files beyond them stay
SavePages(files, n) ==
    [i \in 1..Max(Len(files), n) |-> IF i <= n THEN "pil" ELSE files[i]]

\* pack_tiles_hybrid: the code after the loop, and the pages are saved
HybridEnd ==
    /\ lpc = "hybrid"
    /\ idx = Len(tiles)
    /\ pages' = IF tiles = <<>> THEN <<>>
                ELSE HybridFinish([current |-> current, used_h |-> used_h, pages |-> pages],
                                  pending_left, tiles, captions_list, canvas_size, cfg)
    /\ page_stats' = [k \in 1..Len(pages') |->
                         [tiles |-> Len(pages'[k].items),
                          height_used |-> pages'[k].height_used]]
    /\ current' = <<>> /\ used_h' = 0 /\ pending_left' = 0   \* the locals of the call
    /\ out_pngs' = SavePages(out_pngs, Len(pages'))
    /\ lpc' = "report"
    /\ UNCHANGED <<cfg, canvas_size, figure_groups, gi, tiles, captions_list, matched_meta, used,
                   skipped, idx, rl_pages, report>>

\* report.json
WriteReport ==
    /\ lpc = "report"
    /\ report' = [used |-> used, skipped |-> skipped, pages |-> page_stats,
                  layout_engine |-> cfg.layout_engine, items |-> matched_meta]
    /\ lpc' = "done"
    /\ UNCHANGED <<out_pngs, cfg, canvas_size, figure_groups, gi, tiles, captions_list, matched_meta, used,
                   skipped, idx, pending_left, current, used_h, pages, rl_pages,
                   page_stats>>

\* run(): the report of the paper is appended and process_paper is called for
\* the next paper directory, with the same cfg object
NextPaper(groups, size) ==
    /\ lpc = "done"
    /\ reports' = Append(reports, report)
    /\ figure_groups' = groups
    /\ canvas_size' = size
    /\ gi' = 0 /\ tiles' = <<>> /\ captions_list' = <<>> /\ matched_meta' = <<>>
    /\ used' = 0
    /\ skipped' = [r \in SkipReasons |-> 0]
    /\ idx' = 0 /\ pending_left' = 0 /\ current' = <<>> /\ used_h' = 0
    /\ pages' = <<>> /\ rl_pages' = <<>> /\ page_stats' = <<>> /\ report' = <<>>
    /\ out_pngs' = <<>>
    /\ lpc' = "groups"
    /\ UNCHANGED <<cfg, args, stripVars>>

\* pack_tiles_masonry: one iteration of the while loop
MasonryStep ==
    /\ lpc = "masonry"
    /\ idx < Len(tiles)
    /\ pages' = Append(pages, MasonryPage(idx, tiles, canvas_size, cfg))
    /\ idx' = Min(Len(tiles), idx + Max(1, cfg.tiles_per_page))
    /\ UNCHANGED <<out_pngs, cfg, canvas_size, figure_groups, gi, tiles, captions_list, matched_meta, used,
                   skipped, pending_left, current, used_h, rl_pages, page_stats, report,
                   lpc>>

\* pack_tiles_masonry returns
MasonryReturn ==
    /\ lpc = "masonry"
    /\ idx = Len(tiles)
    /\ page_stats' = [k \in 1..Len(pages) |-> [tiles |-> Len(pages[k].items)]]
    /\ lpc' = "done"
    /\ UNCHANGED <<out_pngs, cfg, canvas_size, figure_groups, gi, tiles, captions_list, matched_meta, used,
                   skipped, idx, pending_left, current, used_h, pages, rl_pages, report>>

----------------------------------------------------------------------------
(* strip_embedded_caption: the rectangle painted white in a loaded image,  *)
(* NoBox when the image is returned as it is.  fig is <<width, height>>.   *)

\* int((cap_bbox[k] - fig_bbox[k0]) * scale), scale = size / max(1.0, extent)
RescaledEdge(cap_edge, fig_edge, size, extent) ==
    ToInt((cap_edge - fig_edge) * size, Max(Unit, extent))

strip_embedded_caption(fig, entry, c) ==
    IF ~c.remove_embedded_caption THEN NoBox
    ELSE IF entry.figure_bbox = NoBox \/ entry.caption_bbox = NoBox THEN NoBox
    ELSE
    Local(entry.figure_bbox, LAMBDA fb :
    Local(entry.caption_bbox, LAMBDA cb :
    Local(Max(0, RescaledEdge(cb[1], fb[1], fig[1], fb[3] - fb[1])), LAMBDA x0 :
    Local(Max(0, RescaledEdge(cb[2], fb[2], fig[2], fb[4] - fb[2])), LAMBDA y0 :
    Local(Min(fig[1], RescaledEdge(cb[3], fb[1], fig[1], fb[3] - fb[1])), LAMBDA x1 :
    Local(Min(fig[2], RescaledEdge(cb[4], fb[2], fig[2], fb[4] - fb[2])), LAMBDA y1 :
        IF x1 > x0 /\ y1 > y0
           /\ (\/ Strip(entry.caption) # <<>>
               \/ (100 * y0 > 85 * fig[2] /\ 100 * (y1 - y0) < 15 * fig[2]))
        THEN <<x0, y0, x1, y1>>
        ELSE NoBox))))))

\* the entries whose images compose_figure_group loads for a group
LoadedMembers(group) ==
    IF Len(group.images) > 2 THEN {group.images[1]}
    ELSE {group.images[k] : k \in 1..Len(group.images)}

----------------------------------------------------------------------------
(* The grouping pipeline of process_paper, one action per call or stage.   *)

\* figures, captions = parse_content_items(content_path)
ParseContent ==
    /\ gpc = "start"
    /\ figures' = ParseFigures(manifest)
    /\ captions' = ParseCaptions(manifest)
    /\ gpc' = "parsed"
    /\ UNCHANGED <<matched, mi, manifest, entries, entry_figures, groups_by_number,
                   ungrouped, result_groups, merged_all>>

\* assign_captions_by_bbox(entries, figures, captions, paper_dir)
AssignCaptions ==
    /\ gpc = "parsed"
    /\ entries' = assign_captions_by_bbox(entries, figures, captions)
    /\ gpc' = "assigned"
    /\ UNCHANGED <<figures, captions, matched, mi, manifest, entry_figures,
                   groups_by_number, ungrouped, result_groups, merged_all>>

\* group_figures_by_proximity with no entries returns []
GroupNothing ==
    /\ gpc = "assigned"
    /\ entries = <<>>
    /\ merged_all' = <<>>
    /\ gpc' = "done"
    /\ UNCHANGED <<figures, captions, matched, mi, manifest, entries, entry_figures,
                   groups_by_number, ungrouped, result_groups>>

\* lines 266-358: matching and entry annotation
Annotate ==
    /\ gpc = "assigned"
    /\ entries # <<>>
    /\ matched' = match_figures_to_captions(figures, captions)
    /\ entry_figures' =
          [i \in 1..Len(entries) |->
              AnnotateEntry(entries[i], i, figures, captions,
                            match_figures_to_captions(figures, captions))]
    /\ gpc' = "annotated"
    /\ UNCHANGED <<figures, captions, mi, manifest, entries, groups_by_number,
                   ungrouped, result_groups, merged_all>>

Stage0Step ==
    /\ gpc = "annotated"
    /\ entry_figures' = Stage0(entry_figures)
    /\ gpc' = "stage0"
    /\ UNCHANGED <<figures, captions, matched, mi, manifest, entries, groups_by_number,
                   ungrouped, result_groups, merged_all>>

Stage1Step ==
    /\ gpc = "stage0"
    /\ groups_by_number' = Stage1(entry_figures, 1, <<>>, <<>>)[1]
    /\ ungrouped' = Stage1(entry_figures, 1, <<>>, <<>>)[2]
    /\ gpc' = "stage1"
    /\ UNCHANGED <<figures, captions, matched, mi, manifest, entries, entry_figures,
                   result_groups, merged_all>>

Stage2Step ==
    /\ gpc = "stage1"
    /\ groups_by_number' = Stage2(entry_figures, groups_by_number, ungrouped)[1]
    /\ ungrouped' = Stage2(entry_figures, groups_by_number, ungrouped)[2]
    /\ gpc' = "stage2"
    /\ UNCHANGED <<figures, captions, matched, mi, manifest, entries, entry_figures,
                   result_groups, merged_all>>

Stage3Step ==
    /\ gpc = "stage2"
    /\ groups_by_number' = Stage3(entry_figures, groups_by_number, ungrouped)[1]
    /\ ungrouped' = Stage3(entry_figures, groups_by_number, ungrouped)[2]
    /\ gpc' = "stage3"
    /\ UNCHANGED <<figures, captions, matched, mi, manifest, entries, entry_figures,
                   result_groups, merged_all>>

BuildStep ==
    /\ gpc = "stage3"
    /\ result_groups' = BuildResult(entry_figures, groups_by_number, ungrouped)
    /\ gpc' = "built"
    /\ UNCHANGED <<figures, captions, matched, mi, manifest, entries, entry_figures,
                   groups_by_number, ungrouped, merged_all>>

Stage4Step ==
    /\ gpc = "built"
    /\ merged_all' = Stage4(entry_figures, result_groups)
    /\ gpc' = "done"
    /\ UNCHANGED <<figures, captions, matched, mi, manifest, entries, entry_figures,
                   groups_by_number, ungrouped, result_groups>>

----------------------------------------------------------------------------
(* Specifications.                                                         *)

IdleMatch == figures = <<>> /\ captions = <<>> /\ matched = <<>> /\ mi = 0

\* no call of wrap_lines on its own
IdleWrap == wrap_args = <<>> /\ wrapped = <<>>

IdleText ==
    /\ text = <<>> /\ purified = <<>> /\ is_valid = FALSE /\ fnum = None /\ tpc = "idle"
    /\ IdleWrap

IdleGroup ==
    /\ manifest = <<>> /\ entries = <<>> /\ entry_figures = <<>>
    /\ groups_by_number = <<>> /\ ungrouped = <<>> /\ result_groups = <<>>
    /\ merged_all = <<>> /\ gpc = "idle"

\* what every run of the layout starts from
LayoutStart ==
    /\ gi = 0 /\ tiles = <<>> /\ captions_list = <<>> /\ matched_meta = <<>>
    /\ used = 0
    /\ skipped = [r \in SkipReasons |-> 0]
    /\ idx = 0 /\ pending_left = 0 /\ current = <<>> /\ used_h = 0
    /\ pages = <<>> /\ rl_pages = <<>> /\ page_stats = <<>> /\ report = <<>>
    /\ out_pngs = <<>>

\* run() before the first paper: the configuration is built from the command line
RunStart == args = [layout_engine |-> cfg.layout_engine] /\ reports = <<>>

\* no image has been through strip_embedded_caption
IdleStrip == stripped = <<>>

IdleLayout ==
    /\ cfg = CliConfig("pil") /\ canvas_size = <<0, 0>> /\ figure_groups = <<>>
    /\ LayoutStart
    /\ RunStart
    /\ IdleStrip
    /\ lpc = "idle"

\* Bounded inputs of the matcher.
MaxFigs == 2

MaxCaps == 2

MatchXs == {<<0, 10>>, <<0, 1>>, <<8, 12>>}

MatchYs == {<<0, 4>>, <<4, 6>>, <<5, 9>>}

MatchBoxes == {<<x[1], y[1], x[2], y[2]>> : x \in MatchXs, y \in MatchYs}

MatchElems == [page_idx : {0, 1}, bbox : MatchBoxes]

SeqsUpTo(S, n) == UNION {[1..k -> S] : k \in 0..n}

InitMatch ==
    /\ figures \in SeqsUpTo(MatchElems, MaxFigs) \ {<<>>}
    /\ captions \in SeqsUpTo(MatchElems, MaxCaps)
    /\ matched = <<>>
    /\ mi = 0
    /\ IdleText
    /\ IdleGroup
    /\ IdleLayout

NextMatch == MatchFigure

SpecMatch == InitMatch /\ [][NextMatch]_vars

\* Bounded inputs of the caption validator.
MaxTextLen == 5

TextAlphabet == {"F", "i", "g", ".", "3", " ", "\n", "A"}

Str_Figure3 ==
    <<"F", "i", "g", "u", "r", "e", " ", "3", ":", " ", "s", "h", "o", "w", "s", " ", "X">>

Str_Body ==
    <<"I", "n", " ", "t", "h", "i", "s", " ", "s", "e", "c", "t", "i", "o", "n", " ",
      "w", "e", " ", "d", "i", "s", "c", "u", "s", "s", ".", ".", ".">>

Str_Paragraph ==
    <<"T", "a", "b", "l", "e", " ", "2", "\n", "\n",
      "T", "h", "e", " ", "n", "e", "x", "t", " ", "p", "a", "r", "t">>

Str_Localized == <<"r", "u", "<tu>", "1", "s", "h", "i">>

TextExamples == {Str_Figure3, Str_Body, Str_Paragraph, Str_Localized}

TextInputs == SeqsUpTo(TextAlphabet, MaxTextLen) \cup TextExamples

InitText ==
    /\ text \in TextInputs
    /\ purified = <<>>
    /\ is_valid = FALSE
    /\ fnum = None
    /\ tpc = "start"
    /\ IdleWrap
    /\ IdleMatch
    /\ IdleGroup
    /\ IdleLayout

ValidateStep == Validate /\ UNCHANGED <<matchVars, groupVars, layoutVars, runVars, stripVars>>

ExtractOrdinalStep == ExtractOrdinal /\ UNCHANGED <<matchVars, groupVars, layoutVars, runVars, stripVars>>

NextText == ValidateStep \/ ExtractOrdinalStep

SpecText == InitText /\ [][NextText]_vars

\* Bounded inputs of wrap_lines: texts of short and long words, widths from one
\* pixel up, fonts of 4 and 6 pixels a character.
MaxWrapLen == 5

WrapAlphabet == {"a", " "}

Str_TwoWords == <<"a", "a", " ", "a", "a", "a", "a", "a", "a", "a">>

Str_ManyWords == <<"a", " ", "a", "a", " ", "a", " ", "a", "a", " ", "a">>

WrapTexts == SeqsUpTo(WrapAlphabet, MaxWrapLen) \cup {Str_TwoWords, Str_ManyWords}

WrapCalls ==
    {[max_width |-> w, max_lines |-> m, font_size |-> f] :
        w \in {1, 8, 20, 40}, m \in {1, 2}, f \in {8, 12}}

InitWrap ==
    /\ text \in WrapTexts
    /\ wrap_args \in WrapCalls
    /\ wrapped = <<>>
    /\ purified = <<>> /\ is_valid = FALSE /\ fnum = None
    /\ tpc = "wrap"
    /\ IdleMatch
    /\ IdleGroup
    /\ IdleLayout

NextWrap == Wrap /\ UNCHANGED <<matchVars, groupVars, layoutVars, runVars, stripVars>>

SpecWrap == InitWrap /\ [][NextWrap]_vars

\* Bounded inputs of the grouping pipeline.  A slot describes one markdown
\* image: the manifest item behind it (none when has_item is false) and the
\* caption the markdown gives it.
MaxEntries == 2

Box(x0, y0, x1, y1) == <<x0 * Unit, y0 * Unit, x1 * Unit, y1 * Unit>>

Str_Fig1 == <<"F", "i", "g", " ", "1">>

Str_Fig2 == <<"F", "i", "g", ".", "2", ":", " ", "b">>

Str_Text == <<"W", "e", " ", "s", "e", "e">>

Str_Overview ==
    <<"F", "i", "g", "u", "r", "e", " ", "1", ":", " ",
      "o", "v", "e", "r", "v", "i", "e", "w">>

\* <<image_caption, markdown caption>> of a slot with a manifest item
CaptionConfigs ==
    {<< <<>>, <<>> >>, << <<Str_Fig1>>, <<>> >>, << <<Str_Fig2>>, <<>> >>,
     << <<Str_Text>>, <<>> >>, << <<>>, Str_Fig1 >>}

\* no caption at all, or a numbered caption in the manifest
PlainConfigs == {<< <<>>, <<>> >>, << <<Str_Fig1>>, <<>> >>}

\* <<page, bbox, captions>> of an image: the stacked pair of page 0 with every
\* caption configuration; the two other boxes of page 0 and the stacked pair
\* of page 1 with the plain ones
SlotPlaces ==
    ({0} \X {Box(10, 10, 210, 110), Box(10, 120, 210, 220)} \X CaptionConfigs)
        \cup ({0} \X {Box(10, 400, 210, 500), Box(230, 10, 430, 110)} \X PlainConfigs)
        \cup ({1} \X {Box(10, 10, 210, 110), Box(10, 120, 210, 220)} \X PlainConfigs)

ItemSlots ==
    {[has_item |-> TRUE, page_idx |-> pl[1], bbox |-> pl[2], image_caption |-> pl[3][1],
      md_caption |-> pl[3][2]] : pl \in SlotPlaces}

BareSlots ==
    {[has_item |-> FALSE, page_idx |-> 0, bbox |-> NoBox, image_caption |-> <<>>,
      md_caption |-> c] : c \in {<<>>, Str_Fig1}}

Slots == ItemSlots \cup BareSlots

\* an image of page 0 with a manifest item and no markdown caption
StackSlot(bbox, image_caption) ==
    [has_item |-> TRUE, page_idx |-> 0, bbox |-> bbox, image_caption |-> image_caption,
     md_caption |-> <<>>]

\* three images stacked on page 0, ten units apart, the top one captioned "Fig 1"
StackOfThree ==
    <<StackSlot(Box(10, 10, 210, 110), <<Str_Fig1>>),
      StackSlot(Box(10, 120, 210, 220), <<>>),
      StackSlot(Box(10, 230, 210, 330), <<>>)>>

\* the manifest items of the slots that have one; every image has its own path
ManifestOf(sl) ==
    LET with == SelectSeq(Indexes(sl), LAMBDA k : sl[k].has_item)
    IN  [j \in 1..Len(with) |->
            [type |-> "image", page_idx |-> sl[with[j]].page_idx,
             bbox |-> sl[with[j]].bbox, img_path |-> ToString(with[j]),
             image_caption |-> sl[with[j]].image_caption]]

\* the same three images without any caption
PlainStack ==
    <<StackSlot(Box(10, 10, 210, 110), <<>>),
      StackSlot(Box(10, 120, 210, 220), <<>>),
      StackSlot(Box(10, 230, 210, 330), <<>>)>>

\* two images of the same width stacked 90 units apart on a page that ends at
\* 300: the captioned one on top
FarPair ==
    <<StackSlot(Box(10, 10, 210, 110), <<Str_Fig1>>),
      StackSlot(Box(10, 200, 210, 300), <<>>)>>

\* the same with the captioned one below and shifted to the right
ShiftedPair ==
    <<StackSlot(Box(10, 10, 210, 110), <<>>),
      StackSlot(Box(200, 200, 400, 300), <<Str_Fig1>>)>>

\* an image captioned "Fig 1" and, far below it, two stacked images without
\* caption
CaptionedAndPair ==
    <<StackSlot(Box(10, 10, 210, 110), <<Str_Fig1>>),
      StackSlot(Box(10, 400, 210, 500), <<>>),
      StackSlot(Box(10, 510, 210, 610), <<>>)>>

\* an entry as parse_md_images leaves it
MdEntry(image_rel, caption) ==
    [image_rel |-> image_rel, caption |-> caption, figure_bbox |-> NoBox,
     figure_page_idx |-> None, img_path |-> "", caption_bbox |-> NoBox]

EntriesOf(sl) == [k \in 1..Len(sl) |-> MdEntry(ToString(k), sl[k].md_caption)]

GroupStart ==
    /\ matched = <<>> /\ mi = 0
    /\ entry_figures = <<>> /\ groups_by_number = <<>> /\ ungrouped = <<>>
    /\ result_groups = <<>> /\ merged_all = <<>>
    /\ IdleText
    /\ IdleLayout

\* a paper directory with a markdown file and a content list
InitPaper ==
    /\ \E sl \in SeqsUpTo(Slots, MaxEntries)
                    \cup {StackOfThree, PlainStack, FarPair, ShiftedPair,
                          CaptionedAndPair} :
          /\ manifest = ManifestOf(sl)
          /\ entries = EntriesOf(sl)
    /\ figures = <<>> /\ captions = <<>>
    /\ gpc = "start"
    /\ GroupStart

\* two stacked images on page 0 and one caption element below them
ScenarioFigures ==
    <<[page_idx |-> 0, bbox |-> Box(10, 10, 210, 110), img_path |-> "1", image_caption |-> <<>>],
      [page_idx |-> 0, bbox |-> Box(10, 120, 210, 220), img_path |-> "2", image_caption |-> <<>>]>>

ScenarioCaptions ==
    <<[page_idx |-> 0, bbox |-> Box(10, 225, 210, 240), text |-> Str_Overview]>>

\* the element lists handed to the caption assignment and the grouper directly
InitScenario ==
    /\ manifest = <<>>
    /\ entries = <<MdEntry("1", <<>>), MdEntry("2", <<>>)>>
    /\ figures = ScenarioFigures
    /\ captions = ScenarioCaptions
    /\ gpc = "parsed"
    /\ GroupStart

InitGroup == InitPaper \/ InitScenario

NextGroup ==
    \/ ParseContent /\ UNCHANGED <<textVars, layoutVars, runVars, stripVars>>
    \/ AssignCaptions /\ UNCHANGED <<textVars, layoutVars, runVars, stripVars>>
    \/ GroupNothing /\ UNCHANGED <<textVars, layoutVars, runVars, stripVars>>
    \/ Annotate /\ UNCHANGED <<textVars, layoutVars, runVars, stripVars>>
    \/ Stage0Step /\ UNCHANGED <<textVars, layoutVars, runVars, stripVars>>
    \/ Stage1Step /\ UNCHANGED <<textVars, layoutVars, runVars, stripVars>>
    \/ Stage2Step /\ UNCHANGED <<textVars, layoutVars, runVars, stripVars>>
    \/ Stage3Step /\ UNCHANGED <<textVars, layoutVars, runVars, stripVars>>
    \/ BuildStep /\ UNCHANGED <<textVars, layoutVars, runVars, stripVars>>
    \/ Stage4Step /\ UNCHANGED <<textVars, layoutVars, runVars, stripVars>>

SpecGroup == InitGroup /\ [][NextGroup]_vars

\* Bounded inputs of process_paper after grouping and of the packers.
MaxGroups == 2

MaxTiles == 3

\* a wide, a square and a tall composed image
TileSizes == {<<40, 20>>, <<20, 20>>, <<10, 40>>}

\* a US-letter cover page at 22 dpi, and a banner page that is lower than the padding
Canvases == {<<187, 242>>, <<400, 12>>}

\* the groups the loop keeps, <<candidate caption, composed image>>: a tall
\* image without caption, a narrow and a wide image with an accepted caption,
\* a wide and a narrow image whose caption is body text
KeptKinds ==
    {<< <<>>, <<10, 40>> >>, <<Str_Fig1, <<20, 20>> >>, <<Str_Overview, <<40, 20>> >>,
     <<Str_Text, <<40, 20>> >>, <<Str_Text, <<20, 20>> >>}

\* a member of a group: its markdown entry and whether its image file opens
Member(heading, caption, readable) ==
    [entry |-> [heading |-> heading, caption |-> caption], readable |-> readable]

Str_Results == <<"R", "e", "s", "u", "l", "t", "s">>

\* one readable image under a "Results" heading
KeptGroups ==
    {[images |-> <<Member(Str_Results, kd[1], TRUE)>>, caption |-> kd[1], tile |-> kd[2],
      text_like |-> FALSE] : kd \in KeptKinds}

\* a group that keep_entry rejects and one whose composed image is text-like
SkippedGroups ==
    {[images |-> <<Member(h, <<>>, TRUE)>>, caption |-> <<>>, tile |-> <<20, 20>>,
      text_like |-> h # <<>>] : h \in {<<>>, Str_Results}}

\* the groups in the order the grouper returned them, each with its id
WithIds(gs) ==
    [k \in 1..Len(gs) |->
        [group_id |-> k, images |-> gs[k].images, caption |-> gs[k].caption,
         tile |-> gs[k].tile, text_like |-> gs[k].text_like]]

\* the configuration of a command-line run with each engine, and the bare
\* dataclass defaults
Configs ==
    {CliConfig(e) : e \in {"pil", "html", "reportlab"}} \cup {DataclassConfig("pil")}

\* a page-shaped cover with every configuration, the banner with the default engine
Runs ==
    (Configs \X {<<187, 242>>})
        \cup ({CliConfig("pil"), DataclassConfig("pil")} \X {<<400, 12>>})

InitLayout ==
    /\ \E r \in Runs : cfg = r[1] /\ canvas_size = r[2]
    /\ \E gs \in SeqsUpTo(KeptGroups \cup SkippedGroups, MaxGroups) :
          figure_groups = WithIds(gs)
    /\ LayoutStart
    /\ RunStart
    /\ IdleStrip
    /\ lpc = "groups"
    /\ IdleMatch /\ IdleText /\ IdleGroup

NextLayout ==
    \/ ProcessGroup /\ UNCHANGED <<matchVars, textVars, groupVars, runVars, stripVars>>
    \/ LayoutReportlab /\ UNCHANGED <<matchVars, textVars, groupVars, runVars, stripVars>>
    \/ LayoutReportlabFails /\ UNCHANGED <<matchVars, textVars, groupVars, runVars, stripVars>>
    \/ LayoutHtml /\ UNCHANGED <<matchVars, textVars, groupVars, runVars, stripVars>>
    \/ LayoutHtmlFails /\ UNCHANGED <<matchVars, textVars, groupVars, runVars, stripVars>>
    \/ LayoutPil /\ UNCHANGED <<matchVars, textVars, groupVars, runVars, stripVars>>
    \/ HybridStep /\ UNCHANGED <<matchVars, textVars, groupVars, runVars, stripVars>>
    \/ HybridEnd /\ UNCHANGED <<matchVars, textVars, groupVars, runVars, stripVars>>
    \/ WriteReport /\ UNCHANGED <<matchVars, textVars, groupVars, runVars, stripVars>>

SpecLayout == InitLayout /\ [][NextLayout]_vars

\* Groups of several members, for the filter and the composition.
Str_Fig2Roc == <<"F", "i", "g", " ", "2", " ", "R", "O", "C">>

Str_Method == <<"M", "e", "t", "h", "o", "d">>

\* one readable image; three images of which the first does not open; two
\* images of which the first, or each, does not open; a stacked pair whose
\* caption belongs to the second or to the first member; an image of the
\* method section
ComposeGroups ==
    {[images |-> <<Member(Str_Results, Str_Fig1, TRUE)>>,
      caption |-> Str_Fig1, tile |-> <<40, 20>>, text_like |-> FALSE],
     [images |-> <<Member(Str_Results, <<>>, FALSE), Member(Str_Results, <<>>, TRUE),
                   Member(Str_Results, <<>>, TRUE)>>,
      caption |-> <<>>, tile |-> <<20, 20>>, text_like |-> FALSE],
     [images |-> <<Member(Str_Results, <<>>, FALSE), Member(Str_Results, <<>>, TRUE)>>,
      caption |-> <<>>, tile |-> <<20, 20>>, text_like |-> FALSE],
     [images |-> <<Member(Str_Results, <<>>, FALSE), Member(Str_Results, <<>>, FALSE)>>,
      caption |-> <<>>, tile |-> <<20, 20>>, text_like |-> FALSE],
     [images |-> <<Member(<<>>, <<>>, TRUE), Member(<<>>, Str_Fig2Roc, TRUE)>>,
      caption |-> Str_Fig2Roc, tile |-> <<10, 40>>, text_like |-> FALSE],
     [images |-> <<Member(<<>>, Str_Fig2Roc, TRUE), Member(<<>>, <<>>, TRUE)>>,
      caption |-> Str_Fig2Roc, tile |-> <<10, 40>>, text_like |-> FALSE],
     [images |-> <<Member(Str_Method, Str_Fig1, TRUE)>>,
      caption |-> Str_Fig1, tile |-> <<20, 20>>, text_like |-> FALSE],
     [images |-> <<Member(Str_Results, <<>>, TRUE)>>,
      caption |-> <<>>, tile |-> <<20, 20>>, text_like |-> TRUE]}

\* the default command line with each engine, and --all-figures
ComposeConfigs ==
    {CliConfig(e) : e \in {"pil", "html", "reportlab"}}
        \cup {[CliConfig("pil") EXCEPT !.results_only = FALSE]}

InitCompose ==
    /\ cfg \in ComposeConfigs
    /\ canvas_size = <<187, 242>>
    /\ \E gs \in SeqsUpTo(ComposeGroups, MaxGroups) : figure_groups = WithIds(gs)
    /\ LayoutStart
    /\ RunStart
    /\ IdleStrip
    /\ lpc = "groups"
    /\ IdleMatch /\ IdleText /\ IdleGroup

SpecCompose == InitCompose /\ [][NextLayout]_vars

\* A run over several paper directories with one configuration.
MaxPapers == 2

\* the figure groups of a paper: none, one or two images of a results section
PaperGroups ==
    {WithIds(gs) :
        gs \in SeqsUpTo({[images |-> <<Member(Str_Results, Str_Fig1, TRUE)>>,
                           caption |-> Str_Fig1, tile |-> t, text_like |-> FALSE] :
                              t \in {<<40, 20>>, <<20, 20>>}}, 2)}

InitRun ==
    /\ cfg \in {CliConfig(e) : e \in {"pil", "html", "reportlab"}}
    /\ canvas_size = <<187, 242>>
    /\ figure_groups \in PaperGroups
    /\ LayoutStart
    /\ RunStart
    /\ IdleStrip
    /\ lpc = "groups"
    /\ IdleMatch /\ IdleText /\ IdleGroup

NextRun ==
    \/ NextLayout
    \/ /\ Len(reports) + 1 < MaxPapers
       /\ \E groups \in PaperGroups : NextPaper(groups, <<187, 242>>)
       /\ UNCHANGED <<matchVars, textVars, groupVars>>

SpecRun == InitRun /\ [][NextRun]_vars

\* compose_figure_group loads the image of a member of a final group and
\* passes it through strip_embedded_caption
StripCaption ==
    /\ gpc = "done"
    /\ stripped = <<>>
    /\ \E g \in 1..Len(merged_all) : \E i \in LoadedMembers(merged_all[g]) :
       \E fig \in TileSizes :
          stripped' = [entry |-> i, fig |-> fig,
                       mask |-> strip_embedded_caption(fig, entries[i], cfg)]

\* the grouping pipeline followed by the loading of one member image
NextStrip ==
    \/ NextGroup
    \/ StripCaption /\ UNCHANGED <<matchVars, textVars, groupVars, layoutVars, runVars>>

SpecStrip == InitGroup /\ [][NextStrip]_vars

\* <<composed image, caption>> of a tile handed to the hybrid packer
HybridInputs == TileSizes \X {<<>>, Str_Fig1, Str_Overview}

\* pack_tiles_hybrid called with any tiles and captions
InitHybrid ==
    /\ cfg = CliConfig("pil")
    /\ canvas_size \in Canvases
    /\ figure_groups = <<>>
    /\ gi = 0
    /\ \E ins \in SeqsUpTo(HybridInputs, MaxTiles) :
          /\ tiles = [k \in 1..Len(ins) |-> ins[k][1]]
          /\ captions_list = [k \in 1..Len(ins) |-> ins[k][2]]
    /\ matched_meta = <<>>
    /\ used = 0
    /\ skipped = [r \in SkipReasons |-> 0]
    /\ idx = 0 /\ pending_left = 0 /\ current = <<>> /\ used_h = 0
    /\ pages = <<>> /\ rl_pages = <<>> /\ page_stats = <<>> /\ report = <<>>
    /\ out_pngs = <<>>
    /\ RunStart
    /\ IdleStrip
    /\ lpc = "hybrid"
    /\ IdleMatch /\ IdleText /\ IdleGroup

NextHybrid ==
    \/ HybridStep /\ UNCHANGED <<matchVars, textVars, groupVars, runVars, stripVars>>
    \/ HybridEnd /\ UNCHANGED <<matchVars, textVars, groupVars, runVars, stripVars>>

SpecHybrid == InitHybrid /\ [][NextHybrid]_vars

\* <<composed image, caption>> of a tile handed to both packers
PackerInputs == TileSizes \X {<<>>, Str_Fig1}

\* process_paper with the reportlab engine hands the same tiles and captions
\* to _pack_tiles_justified_rows and then to pack_tiles_hybrid
InitPackers ==
    /\ cfg = CliConfig("reportlab")
    /\ canvas_size \in Canvases
    /\ figure_groups = <<>>
    /\ gi = 0
    /\ \E ins \in SeqsUpTo(PackerInputs, MaxTiles) :
          /\ tiles = [k \in 1..Len(ins) |-> ins[k][1]]
          /\ captions_list = [k \in 1..Len(ins) |-> ins[k][2]]
    /\ matched_meta = <<>>
    /\ used = 0
    /\ skipped = [r \in SkipReasons |-> 0]
    /\ idx = 0 /\ pending_left = 0 /\ current = <<>> /\ used_h = 0
    /\ pages = <<>> /\ rl_pages = <<>> /\ page_stats = <<>> /\ report = <<>>
    /\ out_pngs = <<>>
    /\ RunStart
    /\ IdleStrip
    /\ lpc = "rows"
    /\ IdleMatch /\ IdleText /\ IdleGroup

\* _pack_tiles_justified_rows(tiles, captions, canvas_size_px, cfg) returns
RowsCall ==
    /\ lpc = "rows"
    /\ rl_pages' = pack_tiles_justified_rows(tiles, captions_list, canvas_size, cfg)
    /\ page_stats' = EngineStats(Len(rl_pages'), tiles)
    /\ lpc' = "hybrid"
    /\ UNCHANGED <<out_pngs, cfg, canvas_size, figure_groups, gi, tiles, captions_list,
                   matched_meta, used, skipped, idx, pending_left, current, used_h, pages,
                   report>>

NextPackers ==
    \/ RowsCall /\ UNCHANGED <<matchVars, textVars, groupVars, runVars, stripVars>>
    \/ HybridStep /\ UNCHANGED <<matchVars, textVars, groupVars, runVars, stripVars>>
    \/ HybridEnd /\ UNCHANGED <<matchVars, textVars, groupVars, runVars, stripVars>>

SpecPackers == InitPackers /\ [][NextPackers]_vars

\* pack_tiles_masonry called with any tiles
InitMasonry ==
    /\ cfg \in {CliConfig("pil"), DataclassConfig("pil")}
    /\ canvas_size \in Canvases
    /\ figure_groups = <<>>
    /\ gi = 0
    /\ tiles \in SeqsUpTo(TileSizes, MaxTiles)
    /\ captions_list = <<>> /\ matched_meta = <<>>
    /\ used = 0
    /\ skipped = [r \in SkipReasons |-> 0]
    /\ idx = 0 /\ pending_left = 0 /\ current = <<>> /\ used_h = 0
    /\ pages = <<>> /\ rl_pages = <<>> /\ page_stats = <<>> /\ report = <<>>
    /\ out_pngs = <<>>
    /\ RunStart
    /\ IdleStrip
    /\ lpc = "masonry"
    /\ IdleMatch /\ IdleText /\ IdleGroup

NextMasonry ==
    \/ MasonryStep /\ UNCHANGED <<matchVars, textVars, groupVars, runVars, stripVars>>
    \/ MasonryReturn /\ UNCHANGED <<matchVars, textVars, groupVars, runVars, stripVars>>

SpecMasonry == InitMasonry /\ [][NextMasonry]_vars

----------------------------------------------------------------------------
(* Claims about the matcher and the overlap metric.                        *)

\* intersection width / min(widths), as the claims define the overlap
ClaimOverlap(a, b) ==
    <<Max(0, Min(a[3], b[3]) - Max(a[1], b[1])), Min(a[3] - a[1], b[3] - b[1])>>

\* same page, caption top at or below the image bottom, overlap >= 0.2
ClaimEligible(fig, cap) ==
    /\ cap.page_idx = fig.page_idx
    /\ cap.bbox[2] >= fig.bbox[4]
    /\ RLe(<<1, 5>>, ClaimOverlap(fig.bbox, cap.bbox))

\* vertical_gap - 10 * horizontal_overlap, in coordinate units
ClaimScore(fig, cap) ==
    LET ov == ClaimOverlap(fig.bbox, cap.bbox)
    IN  <<(cap.bbox[2] - fig.bbox[4]) * ov[2] - 10 * Unit * ov[1], Unit * ov[2]>>

\* c is the earliest minimiser of the score among the eligible captions
ClaimChosen(fig, c) ==
    /\ ClaimEligible(fig, captions[c])
    /\ \A d \in 1..Len(captions) :
          ClaimEligible(fig, captions[d]) =>
             /\ RLe(ClaimScore(fig, captions[c]), ClaimScore(fig, captions[d]))
             /\ d < c => RLt(ClaimScore(fig, captions[c]), ClaimScore(fig, captions[d]))

\* C6: image i is mapped to caption c exactly when c is the earliest
\* minimiser of vertical_gap - 10 * overlap among the captions on the same
\* page, below the image, with overlap (intersection / min width) >= 0.2;
\* image i has no entry exactly when no caption is eligible.
C6_MatchIsBestEligible ==
    \A i \in 1..mi :
        /\ \A c \in 1..Len(captions) :
              (matched[i] = c) <=> ClaimChosen(figures[i], c)
        /\ (matched[i] = 0) <=>
              (\A c \in 1..Len(captions) : ~ClaimEligible(figures[i], captions[c]))

\* C8: horizontal_overlap(a, a) = 1.0 for every non-degenerate bbox a
C8_SelfOverlapIsOne ==
    \A i \in 1..Len(figures) :
        REq(horizontal_overlap(figures[i].bbox, figures[i].bbox), <<1, 1>>)

----------------------------------------------------------------------------
(* Claims about the figure grouper.                                        *)

\* the positions <<group, member>> of the returned groups that hold entry i
PlacesOf(gs, i) ==
    {pos \in (1..Len(gs)) \X (1..Len(entries)) :
        /\ pos[2] <= Len(gs[pos[1]].images)
        /\ gs[pos[1]].images[pos[2]] = i}

\* the returned groups that hold entry i
GroupsOf(gs, i) == {g \in 1..Len(gs) : \E k \in 1..Len(gs[g].images) : gs[g].images[k] = i}

\* C1: every input entry is a member of exactly one of the returned groups,
\* once: none is dropped and none is duplicated, and no group has a member
\* that is not an input entry.
C1_EveryEntryInExactlyOneGroup ==
    gpc = "done" =>
        /\ \A i \in 1..Len(entries) : Cardinality(PlacesOf(merged_all, i)) = 1
        /\ \A g \in 1..Len(merged_all) :
              /\ Len(merged_all[g].images) <= Len(entries)
              /\ \A k \in 1..Len(merged_all[g].images) :
                    merged_all[g].images[k] \in 1..Len(entries)

\* a finished run of two entries: stage 1 put one in a numbered group and
\* left the other ungrouped, and the bbox merge joined the two groups
C1_Witness ==
    /\ gpc = "done"
    /\ Len(entries) = 2
    /\ Len(merged_all) = 1
    /\ Len(merged_all[1].images) = 2
    /\ Len(result_groups) = 2
    /\ ungrouped # <<>>
    /\ groups_by_number # <<>>

\* the ordinal parsed from the annotated caption of an entry
ParsedOrdinal(ef) ==
    IF ef.caption_valid THEN extract_figure_number(ef.caption) ELSE None

\* C2: two entries on the same page whose annotated captions carry the same
\* parsed ordinal are members of the same returned group, and the members
\* of one pre-merge group are never split over several returned groups.
C2_SameOrdinalSameGroup ==
    gpc = "done" =>
        /\ Local([i \in 1..Len(entry_figures) |-> ParsedOrdinal(entry_figures[i])],
                 LAMBDA ordinal :
              \A i, j \in 1..Len(entry_figures) :
                  (/\ ordinal[i] # None
                   /\ ordinal[i] = ordinal[j]
                   /\ PageOr0(entry_figures[i].page_idx) = PageOr0(entry_figures[j].page_idx))
                  => GroupsOf(merged_all, i) = GroupsOf(merged_all, j))
        /\ \A g \in 1..Len(result_groups) :
              \A a, b \in 1..Len(result_groups[g].images) :
                  GroupsOf(merged_all, result_groups[g].images[a])
                      = GroupsOf(merged_all, result_groups[g].images[b])

\* two entries with the same ordinal on one page, too far apart for the
\* bbox merge, end in one group
C2_Witness ==
    /\ gpc = "done"
    /\ Len(entry_figures) = 2
    /\ ParsedOrdinal(entry_figures[1]) = 1
    /\ ParsedOrdinal(entry_figures[2]) = 1
    /\ entry_figures[1].page_idx = 0
    /\ entry_figures[2].page_idx = 0
    /\ entry_figures[1].figure_bbox = Box(10, 10, 210, 110)
    /\ entry_figures[2].figure_bbox = Box(10, 400, 210, 500)
    /\ Len(merged_all) = 1

\* the run that starts from the two stacked images and the caption below
InScenario == figures = ScenarioFigures /\ captions = ScenarioCaptions

----------------------------------------------------------------------------
(* Claims about the caption validator.                                     *)

\* the marker words, in lower case
ClaimMarkers ==
    {<<"f", "i", "g", "u", "r", "e">>, <<"f", "i", "g">>, <<"t", "a", "b", "l", "e">>,
     <<"<tu>">>, <<"<biao>">>}

\* marker w occurs in t at position p, in any letter case
ClaimMarkerAt(t, p, w) ==
    /\ p + Len(w) - 1 <= Len(t)
    /\ \A j \in 1..Len(w) : Lower(t[p + j - 1]) = w[j]

\* marker w occurs in t and a number follows it, after at most a full stop
\* (behind Fig) and blanks
ClaimMarkerWithNumber(t, w) ==
    \E p \in 1..Len(t) :
        /\ ClaimMarkerAt(t, p, w)
        /\ \E d \in (p + Len(w))..Len(t) :
              /\ IsDigit(t[d])
              /\ \A k \in (p + Len(w))..(d - 1) :
                    \/ IsSpace(t[k])
                    \/ (k = p + Len(w) /\ w = <<"f", "i", "g">> /\ t[k] = ".")

ClaimHasMarker(t, w) == \E p \in 1..Len(t) : ClaimMarkerAt(t, p, w)

----------------------------------------------------------------------------
(* Claims about the page layout.                                           *)

\* the rectangle <<x0, y0, x1, y1>> that the pastes of an item cover; the
\* first paste of a redrawn item is h_first high
ItemRect(it) == <<it.x, it.y, it.x + it.w, it.y + Max(it.h, it.h_first)>>

RectInside(r, w, h) == 0 <= r[1] /\ 0 <= r[2] /\ r[3] <= w /\ r[4] <= h

RectsDisjoint(r, q) == r[3] <= q[1] \/ q[3] <= r[1] \/ r[4] <= q[2] \/ q[4] <= r[2]

\* C3: on every page of the hybrid packer no two rendered tile rectangles
\* overlap and every rendered tile rectangle lies within
\* [0, canvas_w] x [0, canvas_h], for any tiles, captions and canvas size.
C3_HybridTilesInsideAndDisjoint ==
    lpc \in {"hybrid", "report", "done"} =>
        \A g \in 1..Len(pages) :
            \A a, b \in 1..Len(pages[g].items) :
                (pages[g].items[a].drawn /\ pages[g].items[b].drawn) =>
                    /\ RectInside(ItemRect(pages[g].items[a]),
                                  canvas_size[1], canvas_size[2])
                    /\ a # b => RectsDisjoint(ItemRect(pages[g].items[a]),
                                              ItemRect(pages[g].items[b]))

\* the caption block of a placement of the justified-rows packer
RowBottom(p) == RAdd(RAdd(p.y, p.h), p.cap_h)

\* C4: every placement of the justified-rows packer stays inside the page:
\* x + w is at most the available width, y + h plus the caption block is at
\* most the available height, and no two placements of a page overlap; also
\* for a row made of a single tall tile.
C4_RowsPlacementsInsidePage ==
    \A g \in 1..Len(rl_pages) :
        \A a, b \in 1..Len(rl_pages[g]) :
            /\ RLe(RAdd(rl_pages[g][a].x, rl_pages[g][a].w),
                   <<available_w(canvas_size, cfg), 1>>)
            /\ RLe(RowBottom(rl_pages[g][a]), <<available_h(canvas_size, cfg), 1>>)
            /\ a # b =>
                  \/ RLe(RAdd(rl_pages[g][a].x, rl_pages[g][a].w), rl_pages[g][b].x)
                  \/ RLe(RAdd(rl_pages[g][b].x, rl_pages[g][b].w), rl_pages[g][a].x)
                  \/ RLe(RowBottom(rl_pages[g][a]), rl_pages[g][b].y)
                  \/ RLe(RowBottom(rl_pages[g][b]), rl_pages[g][a].y)

\* w x h is the size tile scaled by one common factor, up to rounding: some
\* factor f has |w - f * tile[1]| <= 2 and |h - f * tile[2]| <= 2
UniformlyScaled(tile, w, h) ==
    /\ (w - 2) * tile[2] <= (h + 2) * tile[1]
    /\ (h - 2) * tile[1] <= (w + 2) * tile[2]

\* C5: in every packing strategy the rendered width and height of a tile are
\* its original width and height multiplied by one common factor, up to
\* integer rounding, also when a placement is clamped to the canvas at render
\* time; no tile is stretched on one axis only or left unrendered.
C5_TilesOnlyUniformlyScaled ==
    \A g \in 1..Len(pages) :
        \A k \in 1..Len(pages[g].items) :
            /\ pages[g].items[k].drawn
            /\ UniformlyScaled(tiles[pages[g].items[k].tile],
                               pages[g].items[k].w, pages[g].items[k].h)

\* the groups among the first n that the loop keeps
KeptAmong(n) ==
    SelectSeq([k \in 1..n |-> figure_groups[k]],
              LAMBDA g : g.images # <<>> /\ GroupFate(g, cfg) = "keep")

\* the items of page pg in the row at height y, and the row that follows it
RowAt(pg, y) == {k \in 1..Len(pg.items) : pg.items[k].y = y}

NextRowY(pg, y) == MinOf({pg.items[k].y : k \in {j \in 1..Len(pg.items) : pg.items[j].y > y}})

\* C10: every caption handed to the packer and written to the report is
\* empty or accepted by the validator; a group whose candidate caption fails
\* validation is still rendered, with the caption "", and the layout reserves
\* no caption height for its tile: no caption block and no caption gap.
C10_CaptionsEmptyOrAccepted ==
    /\ Len(tiles) = Len(KeptAmong(gi))
    /\ Len(captions_list) = Len(tiles)
    /\ Len(matched_meta) = Len(tiles)
    /\ \A k \in 1..Len(tiles) :
          /\ tiles[k] = KeptAmong(gi)[k].tile
          /\ matched_meta[k].group_id = KeptAmong(gi)[k].group_id
          /\ matched_meta[k].caption = captions_list[k]
          /\ captions_list[k] # <<>> =>
                /\ purify_caption(KeptAmong(gi)[k].caption) = <<captions_list[k], TRUE>>
                /\ \E w \in ClaimMarkers : ClaimMarkerWithNumber(captions_list[k], w)
          /\ ~purify_caption(KeptAmong(gi)[k].caption)[2] => captions_list[k] = <<>>
    /\ report # <<>> => report.items = matched_meta
    /\ lpc \in {"report", "done"} /\ cfg.layout_engine # "html" =>
          \A k \in 1..Len(tiles) :
              \E g \in 1..Len(pages) : \E j \in 1..Len(pages[g].items) :
                  pages[g].items[j].tile = k /\ pages[g].items[j].drawn
    /\ \A g \in 1..Len(pages) :
          /\ \A j \in 1..Len(pages[g].items) :
                captions_list[pages[g].items[j].tile] = <<>> =>
                    /\ pages[g].items[j].cap_h = 0
                    /\ ~pages[g].items[j].cap_drawn
                    /\ ~pages[g].items[j].redrawn
          /\ \A j, n \in 1..Len(pages[g].items) :
                (/\ pages[g].items[j].y < pages[g].items[n].y
                 /\ pages[g].items[n].y = NextRowY(pages[g], pages[g].items[j].y)
                 /\ \A m \in RowAt(pages[g], pages[g].items[j].y) :
                       captions_list[pages[g].items[m].tile] = <<>>)
                => pages[g].items[n].y - pages[g].items[j].y
                       = MaxOf({pages[g].items[m].h_plan :
                                   m \in RowAt(pages[g], pages[g].items[j].y)})
                         + gutter(canvas_size, cfg)
    /\ \A g \in 1..Len(rl_pages) :
          \A j \in 1..Len(rl_pages[g]) :
              captions_list[rl_pages[g][j].tile_idx] = <<>> =>
                  REq(rl_pages[g][j].cap_h, <<0, 1>>)

\* a finished run: the caption of the first group is body text and was
\* cleared, its tile is drawn without a bar, and the tile of the second
\* group follows one gutter below it with its accepted caption drawn
C10_Witness ==
    /\ lpc = "done"
    /\ Len(figure_groups) = 2
    /\ figure_groups[1].caption = Str_Text
    /\ captions_list = <<<<>>, Str_Fig1>>
    /\ report.items[1].caption = <<>>
    /\ Len(pages) = 1
    /\ Len(pages[1].items) = 2
    /\ pages[1].items[1].drawn
    /\ pages[1].items[1].cap_h = 0
    /\ pages[1].items[2].y
          = pages[1].items[1].y + pages[1].items[1].h_plan + gutter(canvas_size, cfg)
    /\ pages[1].items[2].cap_drawn

----------------------------------------------------------------------------
(* Claims about the loop over the figure groups.                           *)

\* the group passes the relevance filter of the loop
PassesFilter(g) == keep_entry(g.images[1].entry, cfg)[1]

SomeReadable(g) == \E k \in 1..Len(g.images) : g.images[k].readable

RenderedIds == {matched_meta[k].group_id : k \in 1..Len(matched_meta)}

\* C11: composing a group fails if and only if none of its members has an
\* image file that opens: a group with a readable member (also one of three
\* or more members whose first member is unreadable) yields a tile and is
\* not dropped, and the compose errors counted are the groups without any
\* readable member.
C11_ComposeFailsIffNoReadableMember ==
    /\ \A k \in 1..gi :
          (/\ figure_groups[k].images # <<>>
           /\ PassesFilter(figure_groups[k])
           /\ SomeReadable(figure_groups[k])
           /\ ~figure_groups[k].text_like)
          => figure_groups[k].group_id \in RenderedIds
    /\ skipped["group_compose_error"]
          = Cardinality({k \in 1..gi : /\ figure_groups[k].images # <<>>
                                       /\ PassesFilter(figure_groups[k])
                                       /\ ~SomeReadable(figure_groups[k])})

\* the engine whose output the report names: the configured one unless it raised
Producer == IF cfg.layout_engine = args.layout_engine THEN args.layout_engine ELSE "pil"

\* C12: exactly one packing strategy produces the page files and the per-page
\* stats of the report: the configured engine when it succeeds, the hybrid
\* packer only when it is configured or the configured engine raised.  When
\* the reportlab engine succeeds the hybrid packer does not run afterwards
\* and overwrites neither its pages nor its stats.
C12_OneStrategyProducesPages ==
    lpc = "done" =>
        /\ \A i \in 1..Len(out_pngs) : out_pngs[i] = Producer
        /\ Producer = "pil" =>
               /\ Len(report.pages) = Len(pages)
               /\ \A k \in 1..Len(report.pages) : "height_used" \in DOMAIN report.pages[k]
        /\ Producer # "pil" =>
               /\ pages = <<>>
               /\ Len(report.pages) = Len(out_pngs)
               /\ \A k \in 1..Len(report.pages) : "page" \in DOMAIN report.pages[k]

\* C13: papers are processed independently: process_paper leaves the shared
\* configuration unchanged, so every paper of a run starts with the layout
\* engine of the original configuration, whether or not the engine failed
\* for an earlier paper.
C13_PapersStartWithOriginalConfig ==
    (lpc = "groups" /\ gi = 0) => cfg.layout_engine = args.layout_engine

\* C17: the relevance filter decides from the group's own heading and its
\* resolved caption: with results_only on, a handled group whose resolved
\* caption contains a positive caption keyword is kept with the reason
\* caption_positive, whichever member carries the caption and in whatever
\* order the members are.
C17_FilterUsesResolvedCaption ==
    \A k \in 1..gi :
        (/\ figure_groups[k].images # <<>>
         /\ cfg.results_only
         /\ has_keyword(figure_groups[k].caption, cfg.caption_positive)
         /\ ~ComposeFails(figure_groups[k])
         /\ ~figure_groups[k].text_like)
        => \E j \in 1..Len(matched_meta) :
              /\ matched_meta[j].group_id = figure_groups[k].group_id
              /\ matched_meta[j].keep_reason = "caption_positive"

\* the groups among the first n for which compose_figure_group is called and raises
ComposeFailures(n) ==
    {k \in 1..n : /\ figure_groups[k].images # <<>>
                  /\ PassesFilter(figure_groups[k])
                  /\ ComposeFails(figure_groups[k])}

\* compose failures are counted and dropped, the other groups that pass the
\* filter are composed, and a finished run has its pages and its report
ComposeFailureContained ==
    /\ skipped["group_compose_error"] = Cardinality(ComposeFailures(gi))
    /\ \A k \in ComposeFailures(gi) : figure_groups[k].group_id \notin RenderedIds
    /\ \A k \in 1..gi :
          (/\ figure_groups[k].images # <<>>
           /\ PassesFilter(figure_groups[k])
           /\ ~ComposeFails(figure_groups[k])
           /\ ~figure_groups[k].text_like)
          => \E j \in 1..Len(tiles) :
                /\ matched_meta[j].group_id = figure_groups[k].group_id
                /\ tiles[j] = figure_groups[k].tile
    /\ lpc = "done" =>
          /\ report.items = matched_meta
          /\ report.skipped = skipped
          /\ cfg.layout_engine # "html" =>
                \A j \in 1..Len(tiles) :
                    \E g \in 1..Len(pages) : \E i \in 1..Len(pages[g].items) :
                        pages[g].items[i].tile = j /\ pages[g].items[i].drawn

\* C14: a failure while composing one figure group never aborts the run: the
\* failing group is dropped and counted under skipped, every later group is
\* still composed (the step that handles a group, failing or not, moves on
\* to the next group), and the pages and the report are produced from the
\* groups that succeeded.
C14_ComposeFailureDropsOnlyThatGroup ==
    /\ []ComposeFailureContained
    /\ [][(lpc = "groups" /\ gi < Len(figure_groups)) => (gi' = gi + 1 /\ lpc' = "groups")]_vars

\* a finished run of two groups: the first failed to compose and is counted,
\* the second is on the page and in the report
C14_Witness ==
    /\ lpc = "done"
    /\ Len(figure_groups) = 2
    /\ ComposeFailures(2) = {1}
    /\ report.skipped["group_compose_error"] = 1
    /\ Len(report.items) = 1
    /\ report.items[1].group_id = 2
    /\ Len(pages) = 1
    /\ pages[1].items[1].drawn

----------------------------------------------------------------------------
(* Claims about the identity and the membership of the final groups.       *)

\* C16: the group_id values of the final groups are pairwise distinct:
\* stage-1 groups, proximity groups, singletons and merged groups never share
\* an id, the groups of a page with a single group, which keep their
\* pre-merge id, included.
C16_GroupIdsPairwiseDistinct ==
    gpc = "done" =>
        \A i, j \in 1..Len(merged_all) :
            SameGroupId(merged_all[i].group_id, merged_all[j].group_id) => i = j

\* a numbered group and a singleton, each alone on its page, both with the
\* id they had before the merge
C16_Witness ==
    /\ gpc = "done"
    /\ Len(merged_all) = 2
    /\ {merged_all[k].group_id[1] : k \in 1..2} = {"pn", "int"}
    /\ merged_all[1].page_idx # merged_all[2].page_idx

\* the entries of a page in the order of the stage-0 walk, those without a
\* bbox left out
WalkOrder(efs, page) ==
    SelectSeq(SortBy(SelectSeq(Indexes(efs), LAMBDA i : PageOr0(efs[i].page_idx) = page),
                     YKey(efs)),
              LAMBDA i : efs[i].figure_bbox # NoBox)

\* C18: stage 0 walks a page's entries top to bottom; an entry with a bbox
\* that has neither an ordinal nor a trusted caption inherits the ordinal of
\* the entry immediately before it in the walk (that entry's own or inherited
\* ordinal) exactly when the vertical gap from that entry is between 0 and
\* 18% of the page's largest bbox bottom and the horizontal overlap with it
\* is at least 0.18; an entry that already has an ordinal is never changed.
C18_Stage0InheritsFromPreviousEntry ==
    [][(gpc = "annotated" /\ gpc' = "stage0") =>
          \A i \in 1..Len(entry_figures) :
              /\ entry_figures[i].figure_number # None
                    => entry_figures'[i].figure_number = entry_figures[i].figure_number
              /\ (/\ entry_figures[i].figure_number = None
                   /\ entry_figures[i].figure_bbox # NoBox
                   /\ ~entry_figures[i].caption_valid)
                  => Local(WalkOrder(entry_figures, PageOr0(entry_figures[i].page_idx)),
                           LAMBDA order :
                               \A k \in 1..Len(order) : order[k] = i =>
                                   IF /\ k > 1
                                      /\ entry_figures'[order[k - 1]].figure_number # None
                                      /\ Stage0Adjacent(
                                             entry_figures[order[k - 1]].figure_bbox,
                                             entry_figures[i].figure_bbox,
                                             Stage0PageHeight(entry_figures, order))
                                   THEN entry_figures'[i].figure_number
                                           = entry_figures'[order[k - 1]].figure_number
                                   ELSE entry_figures'[i].figure_number = None)
      ]_vars

\* the trusted captions of the entries listed in images
TrustedCaptions(images) ==
    {k \in 1..Len(images) : entry_figures[images[k]].caption_valid}

\* C19: stage 2 binds vertical stacks: two images of a page that are
\* consecutive from top to bottom, less than 100 units apart (10% of the
\* assumed page height) and of width similarity above 0.8, exactly one of
\* which has a trusted caption, end up in the same group, and the caption of
\* that group is the trusted caption positioned lowest; so also for a pair
\* too far apart for stage 0 or stage 4 to join it.
C19_Stage2BindsVerticalStacks ==
    gpc = "done" =>
        \A a, b \in 1..Len(entry_figures) :
            (/\ entry_figures[a].figure_bbox # NoBox
             /\ entry_figures[b].figure_bbox # NoBox
             /\ PageOr0(entry_figures[a].page_idx) = PageOr0(entry_figures[b].page_idx)
             /\ Local(WalkOrder(entry_figures, PageOr0(entry_figures[a].page_idx)),
                      LAMBDA order :
                          \E k \in 1..(Len(order) - 1) : order[k] = a /\ order[k + 1] = b)
             /\ Stage2Near(entry_figures[a].figure_bbox, entry_figures[b].figure_bbox)
             /\ entry_figures[a].caption_valid # entry_figures[b].caption_valid)
            => \E g \in 1..Len(merged_all) :
                  /\ \E m, n \in 1..Len(merged_all[g].images) :
                        merged_all[g].images[m] = a /\ merged_all[g].images[n] = b
                  /\ \E m \in TrustedCaptions(merged_all[g].images) :
                        /\ merged_all[g].caption
                              = entry_figures[merged_all[g].images[m]].caption
                        /\ \A n \in TrustedCaptions(merged_all[g].images) :
                              entry_figures[merged_all[g].images[n]].caption_bbox[2]
                                 <= entry_figures[merged_all[g].images[m]].caption_bbox[2]

\* the bbox union of pre-merge group k
PreUnion(k) == bbox_union(entry_figures, result_groups[k].images)

\* the pre-merge groups on the page of group k
PageMates(k) ==
    {m \in 1..Len(result_groups) :
        PageOr0(result_groups[m].page_idx) = PageOr0(result_groups[k].page_idx)}

\* the largest right edge and the largest bottom of the bbox unions of that page
PageExtent(k, coord) ==
    MaxOf({0} \cup {PreUnion(m)[coord] : m \in {n \in PageMates(k) : PreUnion(n) # NoBox}})

\* an edge of the merge graph: two pre-merge groups of one page whose bbox
\* unions satisfy the adjacent-or-overlapping predicate
Linked(i, j) ==
    /\ i # j
    /\ j \in PageMates(i)
    /\ PreUnion(i) # NoBox /\ PreUnion(j) # NoBox
    /\ should_merge_group_bboxes(PreUnion(Min(i, j)), PreUnion(Max(i, j)),
                                 PageExtent(i, 3), PageExtent(i, 4))

\* the pre-merge groups linked to one of S by a chain
RECURSIVE ChainFrom(_)
ChainFrom(S) ==
    Local(S \cup {j \in 1..Len(result_groups) : \E i \in S : Linked(i, j)},
          LAMBDA T : IF T = S THEN S ELSE ChainFrom(T))

\* the final group that holds the images of pre-merge group k
FinalGroupOf(k) ==
    CHOOSE g \in 1..Len(merged_all) :
        \E m \in 1..Len(merged_all[g].images) :
            merged_all[g].images[m] = result_groups[k].images[1]

\* C20: stage 4 produces exactly the connected components of the merge
\* graph: two pre-merge groups are in the same final group if and only if
\* they are on the same page and linked by a chain of pre-merge groups of
\* that page in which each consecutive pair of bbox unions satisfies the
\* adjacent-or-overlapping predicate; groups on different pages and groups
\* without any bbox are never merged.
C20_Stage4IsConnectedComponents ==
    gpc = "done" =>
        \A i, j \in 1..Len(result_groups) :
            i # j => ((FinalGroupOf(i) = FinalGroupOf(j)) <=> (j \in ChainFrom({i})))

\* three groups of one page end in one final group although the first and
\* the third are not adjacent: they are linked through the second
C20_Witness ==
    /\ gpc = "done"
    /\ Len(result_groups) = 3
    /\ Linked(1, 2) /\ Linked(2, 3) /\ ~Linked(1, 3)
    /\ Len(merged_all) = 1
    /\ Len(merged_all[1].images) = 3

\* the position of a member's caption: the top of its caption bbox, below
\* every bbox when the caption has none
CaptionTop(i) ==
    IF entry_figures[i].caption_bbox = NoBox THEN None ELSE entry_figures[i].caption_bbox[2]

\* the first member, in the order of the group's images, among the trusted
\* captions positioned lowest on the page
LowestTrusted(images) ==
    MinOf({m \in TrustedCaptions(images) :
              \A n \in TrustedCaptions(images) : CaptionTop(images[n]) <= CaptionTop(images[m])})

\* C21: the caption of every final group is the lowest trusted caption among
\* its members: the caption of the member whose caption bbox top is greatest
\* among the members with a trusted caption, the first such member on ties,
\* and empty only when no member has a trusted caption; so also for the
\* group of a page with a single group, which skips the merge.
C21_CaptionIsLowestTrusted ==
    gpc = "done" =>
        \A g \in 1..Len(merged_all) :
            IF TrustedCaptions(merged_all[g].images) = {}
            THEN merged_all[g].caption = <<>>
            ELSE merged_all[g].caption
                    = entry_figures[merged_all[g].images[
                          LowestTrusted(merged_all[g].images)]].caption

\* a merged group of two members with different trusted captions: the group
\* carries the caption of the second member, which is the lower one
C21_Witness ==
    /\ gpc = "done"
    /\ Len(merged_all) = 1
    /\ merged_all[1].group_id[1] = "pm"
    /\ Len(merged_all[1].images) = 2
    /\ TrustedCaptions(merged_all[1].images) = {1, 2}
    /\ entry_figures[merged_all[1].images[1]].caption
          # entry_figures[merged_all[1].images[2]].caption
    /\ CaptionTop(merged_all[1].images[1]) < CaptionTop(merged_all[1].images[2])
    /\ merged_all[1].caption = entry_figures[merged_all[1].images[2]].caption

----------------------------------------------------------------------------
(* Claims about the rows and the pages of the hybrid packer.               *)

\* the items of page g in the row of item a: those planned at the same height
HybridRow(g, a) ==
    {b \in 1..Len(pages[g].items) : pages[g].items[b].y = pages[g].items[a].y}

\* the number of narrow tiles directly before tile i, back to the last wide one
RECURSIVE NarrowRun(_)
NarrowRun(i) ==
    IF i = 1 \/ IsWide(tiles[i - 1], cfg) THEN 0 ELSE 1 + NarrowRun(i - 1)

\* <<page, item>> of tile i on the finished pages
PlaceOfTile(i) ==
    CHOOSE pl \in {<<g, a>> : g \in 1..Len(pages), a \in 1..MaxTiles + 1} :
        pl[2] <= Len(pages[pl[1]].items) /\ pages[pl[1]].items[pl[2]].tile = i

\* C22: in the hybrid packer every row holds either one wide tile, placed at
\* the left edge of the content area and scaled to the full available width,
\* or narrow tiles scaled to at most the column width; a wide tile never
\* shares a row, no row holds more than two tiles, and two consecutive
\* narrow tiles with no wide tile between them since the last completed row
\* share one row.
C22_HybridRows ==
    /\ \A g \in 1..Len(pages) : \A a \in 1..Len(pages[g].items) :
          /\ Cardinality(HybridRow(g, a)) <= 2
          /\ IF IsWide(tiles[pages[g].items[a].tile], cfg)
             THEN /\ HybridRow(g, a) = {a}
                  /\ pages[g].items[a].x = padding(canvas_size, cfg)
                  /\ pages[g].items[a].cap_w = available_w(canvas_size, cfg)
             ELSE 2 * pages[g].items[a].cap_w <= col_w2(canvas_size, cfg)
    /\ lpc = "report" =>
          \A i \in 1..(Len(tiles) - 1) :
              (/\ ~IsWide(tiles[i], cfg) /\ ~IsWide(tiles[i + 1], cfg)
               /\ NarrowRun(i) % 2 = 0)
              => /\ PlaceOfTile(i)[1] = PlaceOfTile(i + 1)[1]
                 /\ PlaceOfTile(i + 1)[2] \in HybridRow(PlaceOfTile(i)[1], PlaceOfTile(i)[2])

\* a finished page with a row of two narrow tiles above the row of a wide tile
C22_Witness ==
    /\ lpc = "report"
    /\ Len(tiles) = 3
    /\ Len(pages) = 1
    /\ Len(pages[1].items) = 3
    /\ HybridRow(1, 1) = {1, 2}
    /\ HybridRow(1, 3) = {3}
    /\ IsWide(tiles[3], cfg)
    /\ pages[1].items[3].y > pages[1].items[1].y

\* the planned height of an item of a page with its caption block
PlannedTotal(it) ==
    it.h_plan + BarSpace(captions_list[it.tile], it.cap_w, canvas_size, cfg)

\* the height of the row of item a of page g: the largest planned total in it
RowTotal(g, a) ==
    MaxOf({PlannedTotal(pages[g].items[b]) : b \in HybridRow(g, a)})

\* item a of page g is in the first row of its page
InFirstRow(g, a) ==
    \A b \in 1..Len(pages[g].items) : pages[g].items[a].y <= pages[g].items[b].y

\* C23: a row of the hybrid packer goes on the current page exactly when the
\* page is still empty or the accumulated height plus the row height does not
\* exceed the available height, otherwise the page is finalized and the row
\* opens a new one: every row other than the first of its page ends at or
\* above the available height, the first row of a later page did not fit
\* under the rows of the page before it, and the pages hold the tiles in the
\* order in which they were opened.
C23_HybridPagination ==
    /\ \A k \in 1..Len(current) :
          current[k].y > 0 =>
              current[k].y + current[k].h
                  + BarSpace(captions_list[current[k].tile], current[k].w, canvas_size, cfg)
                  <= available_h(canvas_size, cfg)
    /\ \A g \in 1..Len(pages) : \A a \in 1..Len(pages[g].items) :
          /\ ~InFirstRow(g, a) =>
                (pages[g].items[a].y - padding(canvas_size, cfg)) + RowTotal(g, a)
                    <= available_h(canvas_size, cfg)
          /\ (g > 1 /\ InFirstRow(g, a)) =>
                pages[g - 1].height_used + RowTotal(g, a) > available_h(canvas_size, cfg)
          /\ \A h \in 1..Len(pages) : \A b \in 1..Len(pages[h].items) :
                (g < h \/ (g = h /\ a < b)) =>
                    pages[g].items[a].tile < pages[h].items[b].tile

\* two rows fit on the first page and the third row opens a second page
C23_Witness ==
    /\ lpc = "report"
    /\ Len(pages) = 2
    /\ Len(pages[1].items) = 2
    /\ ~InFirstRow(1, 2)
    /\ pages[2].items[1].tile = 3

\* the rectangle of the caption block pasted for an item of a page
CaptionRect(it) == <<it.cap_x, it.cap_y, it.cap_x + it.cap_w, it.cap_y + it.cap_h>>

\* the caption block of an item is pasted directly beneath its image at the
\* fixed gap, inside the canvas and clear of the image
CaptionBeneath(it) ==
    /\ it.cap_drawn
    /\ it.cap_x = it.x
    /\ it.cap_y = it.y + it.h + caption_spacing(canvas_size, cfg)
    /\ RectInside(CaptionRect(it), canvas_size[1], canvas_size[2])
    /\ RectsDisjoint(CaptionRect(it), ItemRect(it))

\* C24: in the hybrid packer every tile with a non-empty caption gets its
\* caption block rendered directly beneath its image at the fixed gap,
\* entirely inside the canvas and not intersecting the image rectangle; the
\* caption is never clipped, overlapped or omitted.
C24_HybridCaptionsRendered ==
    \A g \in 1..Len(pages) : \A a \in 1..Len(pages[g].items) :
        captions_list[pages[g].items[a].tile] # <<>> => CaptionBeneath(pages[g].items[a])

----------------------------------------------------------------------------
(* Claims about the rows of the justified-rows packer.                     *)

\* the placements of page g in the row of placement a
JustifiedRow(g, a) ==
    {b \in 1..Len(rl_pages[g]) : rl_pages[g][b].y = rl_pages[g][a].y}

\* the widths of the placements of page g that lie in the row of a, from b on
RECURSIVE RowWidthFrom(_, _, _)
RowWidthFrom(g, a, b) ==
    IF b > Len(rl_pages[g]) THEN <<0, 1>>
    ELSE RAdd(IF b \in JustifiedRow(g, a) THEN rl_pages[g][b].w ELSE <<0, 1>>,
              RowWidthFrom(g, a, b + 1))

\* the row of placement a of page g is justified
RowJustified(g, a) ==
    /\ \A b \in JustifiedRow(g, a) : REq(rl_pages[g][b].h, rl_pages[g][a].h)
    /\ REq(RAdd(RowWidthFrom(g, a, 1),
                <<gutter(canvas_size, cfg) * (Cardinality(JustifiedRow(g, a)) - 1), 1>>),
           <<available_w(canvas_size, cfg), 1>>)

\* C25: every row emitted by the justified-rows packer is justified: its
\* tiles have the same height and their widths plus the gutters between them
\* sum to exactly the available width, for any number of tiles and any aspect
\* ratios (rows whose ratios sum to less than 1 included); a wide tile always
\* forms a row by itself.
C25_RowsAreJustified ==
    \A g \in 1..Len(rl_pages) : \A a \in 1..Len(rl_pages[g]) :
        /\ RowJustified(g, a)
        /\ IsWide(tiles[rl_pages[g][a].tile_idx], cfg) => JustifiedRow(g, a) = {a}

----------------------------------------------------------------------------
(* Claims about the masonry packer.                                        *)

\* the tiles of page g
PageTiles(g) == [k \in 1..Len(pages[g].items) |-> pages[g].items[k].tile]

\* the placements planned for page g
PagePlan(g) == MasonryPlan(PageTiles(g), tiles, canvas_size, cfg)

\* the column (counted from 0) in which the placement p lies
ColumnOf(p) ==
    CHOOSE col \in 0..(choose_columns(cfg) - 1) :
        REq(p.x, MasonryX(col, p.w, canvas_size, cfg))

\* the height of column col under the first k placements of plan
RECURSIVE ColumnHeight(_, _, _)
ColumnHeight(plan, k, col) ==
    IF k = 0 THEN 0
    ELSE ColumnHeight(plan, k - 1, col)
         + (IF ColumnOf(plan[k]) = col THEN plan[k].h + gutter(canvas_size, cfg) ELSE 0)

\* placement k of plan lies on top of the shortest column, the lowest on ties
InShortestColumn(plan, k) ==
    /\ REq(plan[k].y, <<ColumnHeight(plan, k - 1, ColumnOf(plan[k])), 1>>)
    /\ \A col \in 0..(choose_columns(cfg) - 1) :
          /\ ColumnHeight(plan, k - 1, ColumnOf(plan[k])) <= ColumnHeight(plan, k - 1, col)
          /\ col < ColumnOf(plan[k]) =>
                ColumnHeight(plan, k - 1, ColumnOf(plan[k])) < ColumnHeight(plan, k - 1, col)

\* the natural packing of page g underfills the page
Underfilled(g) ==
    /\ MasonryColumnsHeight(PageTiles(g), <<1, 1>>, tiles, canvas_size, cfg) > 0
    /\ 1000 * MasonryColumnsHeight(PageTiles(g), <<1, 1>>, tiles, canvas_size, cfg)
           < cfg.masonry_target_fill * available_h(canvas_size, cfg)

\* C26: in the masonry packer each tile goes into the currently shortest
\* column (the lowest index on ties), and when the natural packing of a page
\* of two or more tiles uses less than target_fill of the available height
\* the tiles are scaled up, so that with scale_max > 1 the used height after
\* rescaling is strictly greater than the natural used height.
C26_MasonryShortestColumnAndRescale ==
    \A g \in 1..Len(pages) :
        Len(pages[g].items) >= 2 =>
            /\ \A k \in 1..Len(PagePlan(g)) : InShortestColumn(PagePlan(g), k)
            /\ (Underfilled(g) /\ cfg.masonry_scale_max > 1000) =>
                  MasonryUsed(PageTiles(g), tiles, canvas_size, cfg)
                      > MasonryColumnsHeight(PageTiles(g), <<1, 1>>, tiles, canvas_size, cfg)

\* the positions of the grouping pipeline after entry annotation
Annotated == {"annotated", "stage0", "stage1", "stage2", "stage3", "built", "done"}

----------------------------------------------------------------------------
(* Claims about the accounting of the report.                              *)

\* the sum of the counts of a skipped dict
SkippedTotal(counts) ==
    counts["heading_negative"] + counts["no_results_signal"]
        + counts["group_compose_error"] + counts["text_like"]

\* C29: after process_paper has walked all final groups, used plus the sum
\* of the counts in skipped equals the number of final groups, and the
\* report items, the tiles and the captions handed to the packer are as many
\* as used, whatever the groups were: kept, rejected by the filter, failed
\* in composition or text-like.
C29_ReportAccounting ==
    /\ (lpc = "groups" => gi = Len(figure_groups)) =>
          /\ used + SkippedTotal(skipped) = Len(figure_groups)
          /\ Len(matched_meta) = used
          /\ Len(tiles) = used
          /\ Len(captions_list) = used
    /\ report # <<>> =>
          /\ report.used + SkippedTotal(report.skipped) = Len(figure_groups)
          /\ Len(report.items) = report.used

\* a report of two groups: one became a tile, the composition of the other
\* failed
C29_Witness ==
    /\ report # <<>>
    /\ Len(figure_groups) = 2
    /\ report.used = 1
    /\ report.skipped["group_compose_error"] = 1
    /\ Len(tiles) = 1

----------------------------------------------------------------------------
(* Claims about the conservation of tiles.                                 *)

\* the tiles of the pages g.. of the hybrid packer, page after page
RECURSIVE HybridPlaced(_)
HybridPlaced(g) ==
    IF g > Len(pages) THEN <<>>
    ELSE [k \in 1..Len(pages[g].items) |-> pages[g].items[k].tile] \o HybridPlaced(g + 1)

\* the tiles of the pages g.. of the justified-rows packer, page after page
RECURSIVE RowsPlaced(_)
RowsPlaced(g) ==
    IF g > Len(rl_pages) THEN <<>>
    ELSE [k \in 1..Len(rl_pages[g]) |-> rl_pages[g][k].tile_idx] \o RowsPlaced(g + 1)

\* the per-page tile counts of a sequence of page stats, summed
RECURSIVE TilesCounted(_, _)
TilesCounted(stats, g) ==
    IF g > Len(stats) THEN 0 ELSE stats[g].tiles + TilesCounted(stats, g + 1)

\* C30: the hybrid and the justified-rows packer conserve tiles: every input
\* tile is placed exactly once, the tiles appear on the pages in input order,
\* no page is empty and the per-page tile counts sum to the number of input
\* tiles; an empty tile list yields no pages.
C30_PackersConserveTiles ==
    /\ lpc # "rows" =>
          /\ RowsPlaced(1) = [k \in 1..Len(tiles) |-> k]
          /\ \A g \in 1..Len(rl_pages) : rl_pages[g] # <<>>
    /\ lpc = "report" =>
          /\ HybridPlaced(1) = [k \in 1..Len(tiles) |-> k]
          /\ \A g \in 1..Len(pages) : pages[g].items # <<>>
          /\ Len(page_stats) = Len(pages)
          /\ TilesCounted(page_stats, 1) = Len(tiles)

\* three tiles went through both packers and each packer spread them over
\* more than one page
C30_Witness ==
    /\ lpc = "report"
    /\ Len(tiles) = 3
    /\ Len(rl_pages) > 1
    /\ Len(pages) > 1
    /\ \E g \in 1..Len(pages) : Len(pages[g].items) > 1

----------------------------------------------------------------------------
(* Claims about the stripping of embedded captions.                        *)

\* the mask m covers the whole image fig
CoversImage(m, fig) == m[1] = 0 /\ m[2] = 0 /\ m[3] >= fig[1] /\ m[4] >= fig[2]

\* the mask m lies inside the image fig and inside the caption bbox cb of an
\* entry with figure bbox fb, rescaled into the image and rounded outwards
InsideRescaledCaption(m, fig, fb, cb) ==
    /\ 0 <= m[1] /\ m[1] < m[3] /\ m[3] <= fig[1]
    /\ 0 <= m[2] /\ m[2] < m[4] /\ m[4] <= fig[2]
    /\ (m[1] + 1) * Max(Unit, fb[3] - fb[1]) > (cb[1] - fb[1]) * fig[1]
    /\ (m[2] + 1) * Max(Unit, fb[4] - fb[2]) > (cb[2] - fb[2]) * fig[2]
    /\ m[3] * Max(Unit, fb[3] - fb[1]) <= (cb[3] - fb[1]) * fig[1]
    /\ m[4] * Max(Unit, fb[4] - fb[2]) <= (cb[4] - fb[2]) * fig[2]

\* C27: strip_embedded_caption changes no pixel when the entry has no figure
\* bbox or no caption bbox, and when it erases, the erased rectangle is the
\* caption bbox rescaled into the image and never covers the whole image,
\* also for an entry whose caption came from the image_caption list of its
\* own image.
C27_StripIsConservative ==
    stripped # <<>> =>
        /\ (\/ entries[stripped.entry].figure_bbox = NoBox
            \/ entries[stripped.entry].caption_bbox = NoBox) => stripped.mask = NoBox
        /\ stripped.mask # NoBox =>
              /\ InsideRescaledCaption(stripped.mask, stripped.fig,
                                       entries[stripped.entry].figure_bbox,
                                       entries[stripped.entry].caption_bbox)
              /\ ~CoversImage(stripped.mask, stripped.fig)

----------------------------------------------------------------------------
(* Claims about the caption text.                                          *)

\* C15: wrap_lines returns at most max_lines lines and every returned line
\* measures at most max_width in the given font, for any text, any font
\* metrics, max_width >= 1 and max_lines >= 1, a single word wider than
\* max_width and the line cut with an ellipsis included.
C15_WrappedLinesFit ==
    tpc = "wrapped" =>
        /\ Len(wrapped) <= wrap_args.max_lines
        /\ \A k \in 1..Len(wrapped) :
              TextWidth(wrapped[k], WrapFont(wrap_args)) <= wrap_args.max_width

============================================================================
